---- MODULE Spec2Model ----
(***************************************************************************)
(* Model of the chunk object (buffer pool, keyed hash, chunk id, envelope  *)
(* codec) and of the Sia storage adapter of pbtrung/duplicacy.             *)
(*                                                                         *)
(* Bytes are naturals 0..255 and byte strings are sequences of bytes.      *)
(* Storage paths are sequences of one-character strings, so that the       *)
(* prefix tests of the adapter can be computed character by character.     *)
(***************************************************************************)
EXTENDS Integers, Sequences, FiniteSets, TLC

(***************************************************************************)
(* Bounds of the model.                                                    *)
(***************************************************************************)
\* longest plaintext a chunk is made to absorb with Write
MaxLen == 2
\* capacity of chunkBufferPool (runtime.NumCPU()*16 in the program)
PoolCap == 1

(***************************************************************************)
(* Byte-string helpers.                                                    *)
(***************************************************************************)
Fill(n, b) == [i \in 1..n |-> b]

Take(s, n) == SubSeq(s, 1, IF n < Len(s) THEN n ELSE Len(s))

Drop(s, n) == SubSeq(s, n + 1, Len(s))

RECURSIVE SumTo(_, _)
SumTo(s, n) == IF n = 0 THEN 0 ELSE s[n] + SumTo(s, n - 1)

\* the sum of the bytes of s
SumSeq(s) == SumTo(s, Len(s))

RECURSIVE XorBits(_, _, _)
XorBits(a, b, n) ==
    IF n = 0 THEN 0
    ELSE (((a % 2) + (b % 2)) % 2) + (2 * XorBits(a \div 2, b \div 2, n - 1))

\* bitwise exclusive or of two bytes
Xor(a, b) == XorBits(a, b, 8)

(***************************************************************************)
(* Program constants of the envelope.                                      *)
(***************************************************************************)
\* "duplicacy" followed by the version byte 0
ENCRYPTION_HEADER == <<100, 117, 112, 108, 105, 99, 97, 99, 121, 0>>

\* headerLength := len(ENCRYPTION_HEADER)
HeaderLen == Len(ENCRYPTION_HEADER)
\* salt = make([]byte, 32)
SaltLen == 32
\* threefish.BlockSize512, the length of the Skein MAC
MacLen == 64

\* the salts rand.Read can produce in the model
Salts == {Fill(SaltLen, 17), Fill(SaltLen, 99)}

(***************************************************************************)
(* Library functions, modelled by what they do.                            *)
(***************************************************************************)
\* magic number that opens a zstd frame
ZstdMagic == <<40, 181, 47, 253>>

\* zstd.CompressLevel: a frame holding the content size and one raw block
Compress(src) == ZstdMagic \o <<Len(src)>> \o src

\* zstd.Decompress accepts exactly the well-formed frames
IsFrame(f) ==
    /\ Len(f) >= Len(ZstdMagic) + 1
    /\ Take(f, Len(ZstdMagic)) = ZstdMagic
    /\ f[Len(ZstdMagic) + 1] = Len(f) - Len(ZstdMagic) - 1

Decompress(f) ==
    IF IsFrame(f) THEN [err |-> "nil", out |-> Drop(f, Len(ZstdMagic) + 1)]
    ELSE [err |-> "zstd", out |-> <<>>]

\* pbkdf2.Key(encryptionKey, derivationKey, 100, 128, sha512.New): a
\* pseudo-random function, modelled as an injective encoding of its inputs
Pbkdf2(password, salt) == <<1, Len(password)>> \o password \o salt

\* the effective key of Encrypt and Decrypt
DeriveKey(encryptionKey, derivationKey) ==
    IF Len(derivationKey) > 0 THEN Pbkdf2(encryptionKey, derivationKey)
    ELSE encryptionKey

\* cfg.Hash(encryptionKey, salt): the Argon2 blob the cipher key, the tweak
\* and the counter are cut from, reduced to the seed of the key stream
Argon2(key, salt) == ((7 * SumSeq(key)) + (3 * SumSeq(salt)) + 5) % 256

\* byte i of the Threefish-1024 CTR key stream under the blob
KeyStreamByte(blob, i) == (blob + (11 * i)) % 256

\* stream.XORKeyStream(dst, src)
XORKeyStream(key, salt, src) ==
    LET blob == Argon2(key, salt)
    IN  [i \in 1..Len(src) |-> Xor(src[i], KeyStreamByte(blob, i))]

\* a MAC that covers the header and the salt but not the data
SkeinMac_NoData(key, salt, data) ==
    LET enc == <<Len(key)>> \o key \o ENCRYPTION_HEADER \o salt
    IN  Take(enc \o Fill(MacLen, 0), MacLen)

\* Skein-MAC-512 under the MAC key of the Argon2 blob of (key, salt) over
\* ENCRYPTION_HEADER, salt and data: MacLen bytes, collision-free as long as
\* the encoding of its inputs fits in MacLen bytes
SkeinMac(key, salt, data) ==
    LET enc == <<Len(key)>> \o key \o ENCRYPTION_HEADER \o salt
                   \o <<Len(data)>> \o data
    IN  Take(enc \o Fill(MacLen, 0), MacLen)

\* threefishCTR with the MAC always taken over its output
threefishCTR_MacOverOutput(key, salt, src, enc, fault) ==
    IF fault = "kdf" THEN [err |-> "kdf", dst |-> <<>>, mac |-> <<>>]
    ELSE LET dst == XORKeyStream(key, salt, src)
         IN  [err |-> "nil", dst |-> dst, mac |-> SkeinMac(key, salt, dst)]

\* threefishCTR(encryptionKey, salt, src, enc); fault "kdf" is a failure of
\* cfg.Hash or threefish.NewCipher
threefishCTR(key, salt, src, enc, fault) ==
    IF fault = "kdf" THEN [err |-> "kdf", dst |-> <<>>, mac |-> <<>>]
    ELSE LET dst == XORKeyStream(key, salt, src)
         IN  [err |-> "nil", dst |-> dst,
              mac |-> SkeinMac(key, salt, IF enc THEN dst ELSE src)]

\* config.NewKeyedHasher(config.HashKey) fed with data, then Sum(nil)
KeyedHash(hashKey, data) == <<Len(hashKey)>> \o hashKey \o data

\* zbase32(pbkdf2.Key(config.IDKey, hash, 13, 64, sha512.New))
ChunkID(idKey, hash) == <<2, Len(idKey)>> \o idKey \o hash

(***************************************************************************)
(* The envelope codec as pure functions of the buffer contents.            *)
(***************************************************************************)
\* an envelope written without its MAC
Seal_NoMac(compressed, key, salt) ==
    LET r == threefishCTR(key, salt, compressed, TRUE, "none")
    IN  ENCRYPTION_HEADER \o salt \o r.dst

\* header || salt || MAC || ciphertext, as Encrypt lays it out
Seal(compressed, key, salt) ==
    LET r == threefishCTR(key, salt, compressed, TRUE, "none")
    IN  ENCRYPTION_HEADER \o salt \o r.mac \o r.dst

\* What Encrypt computes from the plaintext: err, the envelope (out) and
\* what has been written to encryptedBuffer when it returns (staged).
\* fault names the library call that fails: "rand" (rand.Read), "zstd"
\* (zstd.CompressLevel), "kdf" (inside threefishCTR), or "none".
EncryptEnvelope(plain, encryptionKey, derivationKey, salt, fault) ==
    LET key    == DeriveKey(encryptionKey, derivationKey)
        keyed  == Len(encryptionKey) > 0
        staged == IF keyed THEN ENCRYPTION_HEADER \o salt ELSE <<>>
    IN  IF keyed /\ fault = "rand"
          THEN [err |-> "rand", out |-> <<>>, staged |-> ENCRYPTION_HEADER]
        ELSE IF fault = "zstd"
          THEN [err |-> "zstd", out |-> <<>>, staged |-> staged]
        ELSE IF ~keyed
          THEN [err |-> "nil", out |-> Compress(plain),
                staged |-> Compress(plain)]
        ELSE IF fault = "kdf"
          THEN [err |-> "kdf", out |-> <<>>, staged |-> staged]
        ELSE [err |-> "nil", out |-> Seal(Compress(plain), key, salt),
              staged |-> Seal(Compress(plain), key, salt)]

\* the checks of Decrypt with the version byte looked at before the magic
DecryptKeyed_VersionFirst(src, key, fault) ==
    LET offset == HeaderLen + SaltLen + MacLen
    IN  IF Len(src) < offset
          THEN [err |-> "short", out |-> <<>>, arg |-> Len(src),
                steps |-> <<"length">>]
        ELSE IF src[HeaderLen] # 0
          THEN [err |-> "version", out |-> <<>>, arg |-> src[HeaderLen],
                steps |-> <<"length", "version">>]
        ELSE IF Take(src, HeaderLen - 1) # Take(ENCRYPTION_HEADER, HeaderLen - 1)
          THEN [err |-> "magic", out |-> <<>>, arg |-> 0,
                steps |-> <<"length", "version", "magic">>]
        ELSE LET salt == SubSeq(src, HeaderLen + 1, HeaderLen + SaltLen)
                 chunkSkeinMac == SubSeq(src, HeaderLen + SaltLen + 1, offset)
                 r == threefishCTR(key, salt, Drop(src, offset), FALSE, fault)
                 d == Decompress(r.dst)
             IN  IF r.err # "nil"
                   THEN [err |-> r.err, out |-> <<>>, arg |-> 0,
                         steps |-> <<"length", "version", "magic">>]
                 ELSE IF chunkSkeinMac # r.mac
                   THEN [err |-> "mac", out |-> <<>>, arg |-> 0,
                         steps |-> <<"length", "version", "magic", "mac">>]
                 ELSE [err |-> d.err, out |-> d.out, arg |-> 0,
                       steps |-> <<"length", "version", "magic", "mac",
                                   "decompress">>]

\* The checks of Decrypt on an encrypted envelope, in the order of the code.
\* steps lists the checks and library calls performed; arg is the byte the
\* unsupported-version error names.
DecryptKeyed(src, key, fault) ==
    LET offset == HeaderLen + SaltLen + MacLen
    IN  IF Len(src) < offset
          THEN [err |-> "short", out |-> <<>>, arg |-> Len(src),
                steps |-> <<"length">>]
        ELSE IF Take(src, HeaderLen - 1) # Take(ENCRYPTION_HEADER, HeaderLen - 1)
          THEN [err |-> "magic", out |-> <<>>, arg |-> 0,
                steps |-> <<"length", "magic">>]
        ELSE IF src[HeaderLen] # 0
          THEN [err |-> "version", out |-> <<>>, arg |-> src[HeaderLen],
                steps |-> <<"length", "magic", "version">>]
        ELSE LET salt == SubSeq(src, HeaderLen + 1, HeaderLen + SaltLen)
                 chunkSkeinMac == SubSeq(src, HeaderLen + SaltLen + 1, offset)
                 r == threefishCTR(key, salt, Drop(src, offset), FALSE, fault)
                 d == Decompress(r.dst)
             IN  IF r.err # "nil"
                   THEN [err |-> r.err, out |-> <<>>, arg |-> 0,
                         steps |-> <<"length", "magic", "version">>]
                 ELSE IF chunkSkeinMac # r.mac
                   THEN [err |-> "mac", out |-> <<>>, arg |-> 0,
                         steps |-> <<"length", "magic", "version", "mac">>]
                 ELSE [err |-> d.err, out |-> d.out, arg |-> 0,
                       steps |-> <<"length", "magic", "version", "mac",
                                   "decompress">>]

\* What Decrypt computes from the bytes it finds in the buffer
DecryptEnvelope(src, encryptionKey, derivationKey, fault) ==
    IF Len(encryptionKey) > 0
      THEN DecryptKeyed(src, DeriveKey(encryptionKey, derivationKey), fault)
    ELSE LET d == Decompress(src)
         IN  [err |-> d.err, out |-> d.out, arg |-> 0,
              steps |-> <<"decompress">>]

(***************************************************************************)
(* State.                                                                  *)
(***************************************************************************)
VARIABLES
    bufs,     \* heap of bytes.Buffer objects: buffer id -> contents
    caps,     \* buffer id -> Cap(), followed in the pool specification
    pool,     \* chunkBufferPool: the buffer ids queued in the channel
    chunk,    \* the Chunk objects: buffer, size, hasher, hash, id, config
    life,     \* history of each chunk since its last Reset
    last,     \* the chunk operation that returned last, with its arguments
    remote,   \* the files the Sia daemon knows (api.RenterFiles)
    queue,    \* the downloads the Sia daemon knows (api.RenterDownloadQueue)
    tmp,      \* the files of os.TempDir(): name -> contents
    thr,      \* each thread's position in UploadFile or DownloadFile
    ret,      \* the storage call that returned last, with its results
    fossil,   \* history of the chunk file chunks/abc
    DecryptWithHMACSHA256   \* the package variable of that name

cvars == <<bufs, caps, pool, chunk, life, last>>

svars == <<remote, queue, tmp, thr, ret, fossil>>

vars ==
    <<bufs, caps, pool, chunk, life, last, remote, queue, tmp, thr, ret, fossil,
      DecryptWithHMACSHA256>>

Chunks == {"c1", "c2"}

\* the threads that call the chunks and the storage; thread t works on
\* chunk ChunkOf(t)
Threads == {"t1", "t2"}

ChunkOf(t) == IF t = "t1" THEN "c1" ELSE "c2"

\* buffer ids: one per chunk, one per pool slot, one per call in progress
BufIds == 1..(Cardinality(Chunks) + PoolCap + Cardinality(Threads))

\* chunk.buffer == nil
NoBuf == 0

\* config.MaximumChunkSize
MaximumChunkSize == 4

\* chunk.hasher == nil; a live hasher is the byte string it has absorbed
NoHasher == <<-1>>

\* the repository configurations chunks are created with
Configs ==
    { [HashKey |-> <<11>>, IDKey |-> <<21>>],
      [HashKey |-> <<12>>, IDKey |-> <<22>>] }

\* the configuration of the first chunk
Config1 == [HashKey |-> <<11>>, IDKey |-> <<21>>]

\* encryption and derivation keys handed to Encrypt and Decrypt
EncryptionKeys == {<<>>, <<65>>}
DerivationKeys == {<<>>, <<99>>}

\* bytes handed to Write
PlainBytes == {<<0>>, <<1>>, <<0, 1>>}

(***************************************************************************)
(* The buffer pool.                                                        *)
(***************************************************************************)
InUse(b) ==
    \/ \E i \in 1..Len(pool) : pool[i] = b
    \/ \E c \in Chunks : chunk[c].buffer = b
    \/ \E t \in Threads : /\ thr[t].pc \in {"Encrypt", "Decrypt"}
                           /\ thr[t].encryptedBuffer = b

\* AllocateChunkBuffer: receive from the channel, or new(bytes.Buffer)
AllocateChunkBuffer ==
    IF pool # <<>> THEN Head(pool)
    ELSE CHOOSE b \in BufIds :
            ~InUse(b) /\ \A x \in BufIds : x < b => InUse(x)

\* the channel after AllocateChunkBuffer
PoolAfterAllocate == IF pool # <<>> THEN Tail(pool) ELSE pool

\* ReleaseChunkBuffer: send to the channel, or discard when it is full
ReleaseChunkBuffer(p, b) == IF Len(p) < PoolCap THEN Append(p, b) ELSE p

\* The heap after buffer b was handed to ReleaseChunkBuffer.  The bytes a
\* released buffer still holds are never read again: AllocateChunkBuffer is
\* followed by Reset() at each of its three call sites, and a discarded
\* buffer is garbage.  The heap therefore forgets them at the release.
HeapAfterRelease(h, b) == [h EXCEPT ![b] = <<>>]

\* A capacity as the model keeps it.  CreateChunk reads of Cap() only
\* whether it is below MaximumChunkSize and, if so, its value; a capacity of
\* MaximumChunkSize or more is kept as MaximumChunkSize.
Saturated(k) == IF k < MaximumChunkSize THEN k ELSE MaximumChunkSize

\* bytes.Buffer: the capacity after n more bytes were written to, or
\* Grow(n) was called on, a buffer of capacity cap that holds len unread
\* bytes from offset 0.  The bytes fit, or a slice of 2*cap + n bytes
\* replaces the storage.  (The 64 bytes a small first write gets are left
\* out: the sizes of the model stand for sizes far above them.)
GrownCap(cap, len, n) ==
    IF cap = MaximumChunkSize \/ len + n <= cap THEN cap
    ELSE Saturated((2 * cap) + n)

\* the capacity after a buffer that was Reset() received writes of the
\* lengths lens, one after the other
RECURSIVE CapAfterWrites(_, _)
CapAfterWrites(cap, lens) ==
    IF lens = <<>> THEN cap
    ELSE LET front == SubSeq(lens, 1, Len(lens) - 1)
         IN  GrownCap(CapAfterWrites(cap, front), SumSeq(front),
                      lens[Len(lens)])

\* The buffers in use, in a fixed order: those of the chunks, then those
\* queued in the pool.
UsedBuffers(p, ch) ==
    LET held == <<ch["c1"].buffer, ch["c2"].buffer>>
    IN  SelectSeq(held, LAMBDA b : b # NoBuf) \o p

\* s without the later occurrences of its elements
RECURSIVE FirstsOnly(_)
FirstsOnly(s) ==
    IF s = <<>> THEN <<>>
    ELSE LET front == FirstsOnly(SubSeq(s, 1, Len(s) - 1))
             b == s[Len(s)]
         IN  IF \E i \in 1..Len(front) : front[i] = b
               THEN front ELSE Append(front, b)

\* Buffer ids are heap addresses: renaming them changes nothing the program
\* can observe.  Every state is kept in the form in which the buffers in use
\* are numbered 1, 2, ... in the order of UsedBuffers, so that states that
\* differ only in addresses are one state.  A buffer shared by two holders
\* keeps one id.
Renumbered(h, p, ch) ==
    LET order == FirstsOnly(UsedBuffers(p, ch))
        rank(b) == IF b = NoBuf THEN NoBuf
                   ELSE CHOOSE i \in 1..Len(order) : order[i] = b
    IN  [bufs  |-> [n \in BufIds |->
                      IF n <= Len(order) THEN h[order[n]] ELSE <<>>],
         pool  |-> [i \in 1..Len(p) |-> rank(p[i])],
         chunk |-> [c \in Chunks |-> [ch[c] EXCEPT !.buffer = rank(@)]]]

(***************************************************************************)
(* Chunk accessors.                                                        *)
(***************************************************************************)
\* chunk.GetBytes()
GetBytes(c) == bufs[chunk[c].buffer]

\* chunk.hasher.Sum(nil)
HasherSum(c) == KeyedHash(chunk[c].config.HashKey, chunk[c].hasher)

\* whether GetHash() can be called without dereferencing a nil hasher
CanHash(c) == chunk[c].hash # <<>> \/ chunk[c].hasher # NoHasher

\* the value GetHash() returns in the current state
HashValue(c) == IF chunk[c].hash # <<>> THEN chunk[c].hash ELSE HasherSum(c)

\* the value GetID() returns in the current state
IDValue(c) ==
    IF chunk[c].id # <<>> THEN chunk[c].id
    ELSE ChunkID(chunk[c].config.IDKey, HashValue(c))

(***************************************************************************)
(* History records.                                                        *)
(***************************************************************************)
NoLife ==
    [phase |-> "new", P |-> <<>>, writes |-> 0, queried |-> FALSE,
     dirty |-> FALSE, ek |-> <<>>, dk |-> <<>>, hash0 |-> <<>>]

\* a chunk whose buffer no longer is what Reset, Write and Encrypt made it
Other == [NoLife EXCEPT !.phase = "other"]

Returned(op, c, err) ==
    [op |-> op, c |-> c, err |-> err, ek |-> <<>>, dk |-> <<>>,
     pre |-> <<>>, arg |-> 0, steps |-> <<>>]

\* no call of Encrypt or Decrypt has returned since the chunk last changed
NoCall == Returned("none", "c1", "nil")

(***************************************************************************)
(* Initial state: every chunk as CreateChunk(config, true) returns it,     *)
(* the pool empty.                                                         *)
(***************************************************************************)
\* the most downloads the daemon accepts in a run
MaxDownloads == 2

\* the names ioutil.TempFile can hand out
TmpNames == 1..(MaxDownloads + 1)

\* no file of that name in the temp dir
NoFile == <<-1>>

\* a file of that name that no call will read again: it was left behind by
\* a call that returned an error, or written by the daemon after the call
\* that asked for it returned.  Only its existence is kept.
Leftover == <<-2>>

\* the contents of the remote files a fresh storage starts with
StoredXyz == <<9>>

StoredSnapshot == <<8>>

\* a thread that is in no storage call
Idle == [pc |-> "idle", filePath |-> "", tmpFile |-> 0, want |-> <<>>]

\* no storage call has just returned
NoRet == [op |-> "none"]

\* nothing is known of chunks/abc
NoFossil == [phase |-> "none", E |-> <<>>]

\* the files the daemon lists when the storage is created
StoredFiles ==
    << [SiaPath |-> "d/snapshots/host/1", Filesize |-> Len(StoredSnapshot),
        Available |-> TRUE, data |-> StoredSnapshot],
       [SiaPath |-> "d/chunks/xyz", Filesize |-> Len(StoredXyz),
        Available |-> TRUE, data |-> StoredXyz] >>

\* the storage as CreateSIAStorage finds it, the daemon listing the files rf
InitStorageOn(rf) ==
    /\ remote = rf
    /\ queue = <<>>
    /\ tmp = [f \in TmpNames |-> NoFile]
    /\ thr = [t \in Threads |-> Idle]
    /\ ret = NoRet
    /\ fossil = NoFossil

InitStorage == InitStorageOn(StoredFiles)

\* os.LookupEnv("DUPLICACY_DECRYPT_WITH_HMACSHA256"): the variable is not
\* set, or set to the value
NoEnv == [found |-> FALSE, value |-> ""]

Environments == {NoEnv} \cup {[found |-> TRUE, value |-> v] :
                                v \in {"", "0", "1"}}

\* func init(): the value DecryptWithHMACSHA256 has from then on
init(env) == env.found /\ env.value # "0"

\* no function assigns to DecryptWithHMACSHA256
SwitchKept == UNCHANGED DecryptWithHMACSHA256

\* The capacity of a buffer is read by CreateChunk alone.  It is followed
\* by the operations of the pool specification, which contains CreateChunk;
\* the operations of the other specifications leave it out.
CapsNotFollowed == UNCHANGED caps

\* a step of a chunk leaves the storage alone
StorageIdle ==
    /\ ret' = NoRet
    /\ UNCHANGED <<remote, queue, tmp, thr, fossil>>
    /\ CapsNotFollowed
    /\ SwitchKept

\* the program after init() ran in the environment env, with chunks of the
\* configurations configs and the daemon listing the files rf
InitProgram(configs, rf, env) ==
    /\ DecryptWithHMACSHA256 = init(env)
    /\ bufs = [b \in BufIds |-> <<>>]
    /\ caps = [b \in BufIds |-> IF b \in {1, 2} THEN MaximumChunkSize ELSE 0]
    /\ pool = <<>>
    /\ \E cfg \in configs :
          chunk = [c \in Chunks |->
                     [buffer |-> IF c = "c1" THEN 1 ELSE 2, size |-> 0,
                      hasher |-> NoHasher, hash |-> <<>>, id |-> <<>>,
                      config |-> cfg[c]]]
    /\ life = [c \in Chunks |-> NoLife]
    /\ last = NoCall
    /\ InitStorageOn(rf)

InitChunksOn(configs, rf) == InitProgram(configs, rf, NoEnv)

InitChunks(configs) == InitChunksOn(configs, StoredFiles)

(***************************************************************************)
(* Chunk operations.                                                       *)
(***************************************************************************)
\* a Reset that leaves the cached hash in place
ResetFields_KeepHash(ch, hashNeeded) ==
    [ch EXCEPT !.hasher = IF hashNeeded THEN <<>> ELSE NoHasher,
               !.id = <<>>,
               !.size = 0]

\* a Reset that leaves the cached id in place
ResetFields_KeepID(ch, hashNeeded) ==
    [ch EXCEPT !.hasher = IF hashNeeded THEN <<>> ELSE NoHasher,
               !.hash = <<>>,
               !.size = 0]

\* the fields of a chunk after Reset(hashNeeded)
ResetFields(ch, hashNeeded) ==
    [ch EXCEPT !.hasher = IF hashNeeded THEN <<>> ELSE NoHasher,
               !.hash = <<>>,
               !.id = <<>>,
               !.size = 0]

\* Chunk.Reset(hashNeeded)
Reset(c, hashNeeded) ==
    /\ bufs' = IF chunk[c].buffer # NoBuf
                 THEN [bufs EXCEPT ![chunk[c].buffer] = <<>>]
                 ELSE bufs
    /\ chunk' = [chunk EXCEPT ![c] = ResetFields(@, hashNeeded)]
    /\ life' = [life EXCEPT ![c] =
                  [NoLife EXCEPT !.phase = IF hashNeeded THEN "plain" ELSE "cipher"]]
    /\ last' = NoCall
    /\ UNCHANGED pool
    /\ StorageIdle

\* a Write that feeds the buffer only
Absorbed_Nothing(hasher, p) == hasher

\* if chunk.hasher != nil { chunk.hasher.Write(p) }
Absorbed(hasher, p) == IF hasher # NoHasher THEN hasher \o p ELSE hasher

\* what Chunk.Write(p) does to the chunk and to the bytes of its buffer
WriteBytes(c, p) ==
    /\ chunk[c].buffer # NoBuf
    /\ Len(GetBytes(c)) + Len(p) <= MaxLen
    /\ chunk[c].hasher # NoHasher => Len(chunk[c].hasher) + Len(p) <= MaxLen
    /\ bufs' = [bufs EXCEPT ![chunk[c].buffer] = @ \o p]
    /\ chunk' = [chunk EXCEPT ![c].hasher = Absorbed(@, p)]
    /\ life' = [life EXCEPT ![c] =
                  IF @.phase = "plain"
                    THEN [@ EXCEPT !.P = @ \o p, !.writes = @ + 1,
                                   !.dirty = @ \/ life[c].queried]
                    ELSE Other]
    /\ last' = NoCall
    /\ UNCHANGED pool

\* Chunk.Write(p)
Write(c, p) ==
    /\ WriteBytes(c, p)
    /\ StorageIdle

\* the history of a chunk after its hash or id was asked for
Queried(l) ==
    IF l.phase = "plain" THEN [l EXCEPT !.queried = TRUE]
    ELSE IF l.phase \in {"new", "cipher"} THEN l
    ELSE Other

\* Chunk.GetHash()
GetHash(c) ==
    /\ CanHash(c)
    /\ chunk' = [chunk EXCEPT ![c].hash = HashValue(c)]
    /\ life' = [life EXCEPT ![c] = Queried(@)]
    /\ last' = NoCall
    /\ UNCHANGED <<bufs, pool>>
    /\ StorageIdle

\* Chunk.GetID()
GetID(c) ==
    /\ chunk[c].id # <<>> \/ CanHash(c)
    /\ chunk' = [chunk EXCEPT ![c].hash = IF chunk[c].id # <<>> THEN @ ELSE HashValue(c),
                              ![c].id = IDValue(c)]
    /\ life' = [life EXCEPT ![c] = Queried(@)]
    /\ last' = NoCall
    /\ UNCHANGED <<bufs, pool>>
    /\ StorageIdle

\* a VerifyID that never logs
VerifyIDReports_Never(bytes, config, id) == "nil"

\* what VerifyID makes of the bytes of the buffer and of the id that
\* chunk.GetID() returned: "CHUNK_ID" is the LOG_ERROR, "nil" no report
VerifyIDReports(bytes, config, id) ==
    LET hash == KeyedHash(config.HashKey, bytes)
        chunkID == ChunkID(config.IDKey, hash)
    IN  IF chunkID # id THEN "CHUNK_ID" ELSE "nil"

\* Chunk.VerifyID().  chunk.GetID() caches hash and id as GetID does; with
\* no id, no hash and a nil hasher it dereferences the nil hasher, and with
\* no buffer VerifyID dereferences the nil buffer: the call panics.  id0 and
\* h0 are the cached id and the value of GetHash() before the call.
VerifyID(c) ==
    LET panics == \/ chunk[c].buffer = NoBuf
                  \/ chunk[c].id = <<>> /\ ~CanHash(c)
        bytes == IF chunk[c].buffer = NoBuf THEN <<>> ELSE GetBytes(c)
        before == [id0 |-> chunk[c].id,
                   h0 |-> IF CanHash(c) THEN HashValue(c) ELSE <<>>,
                   phase0 |-> life[c].phase]
    IN  /\ chunk' = IF panics THEN chunk
                    ELSE [chunk EXCEPT
                            ![c].hash = IF chunk[c].id # <<>> THEN @
                                        ELSE HashValue(c),
                            ![c].id = IDValue(c)]
        /\ life' = [life EXCEPT ![c] = IF panics THEN @ ELSE Queried(@)]
        /\ last' = before @@
                     [Returned("VerifyID", c,
                               IF panics THEN "panic"
                               ELSE VerifyIDReports(bytes, chunk[c].config,
                                                    IDValue(c)))
                        EXCEPT !.pre = bytes]
        /\ UNCHANGED <<bufs, pool>>
        /\ StorageIdle

\* an Encrypt that drops what the chunk knows of its hash
EncryptSwap_DropHash(ch, encryptedBuffer) ==
    [ch EXCEPT !.buffer = encryptedBuffer, !.hasher = NoHasher,
               !.hash = <<>>, !.id = <<>>]

\* an Encrypt that leaves the plaintext buffer with the chunk
EncryptSwap_NoSwap(ch, encryptedBuffer) == ch

\* chunk.buffer, encryptedBuffer = encryptedBuffer, chunk.buffer: the only
\* assignment of Encrypt to a field of the chunk
EncryptSwap(ch, encryptedBuffer) == [ch EXCEPT !.buffer = encryptedBuffer]

\* Chunk.Encrypt(encryptionKey, derivationKey); salt is what rand.Read
\* returns and fault the library call that fails, if any
Encrypt(c, encryptionKey, derivationKey, salt, fault) ==
    /\ chunk[c].buffer # NoBuf
    /\ Len(GetBytes(c)) <= MaxLen
    /\ LET old == chunk[c].buffer
           encryptedBuffer == AllocateChunkBuffer
           r == EncryptEnvelope(bufs[old], encryptionKey, derivationKey, salt, fault)
           p == PoolAfterAllocate
           swapped == Renumbered(
                          HeapAfterRelease(
                              [bufs EXCEPT ![encryptedBuffer] = r.out], old),
                          ReleaseChunkBuffer(p, old),
                          [chunk EXCEPT ![c] = EncryptSwap(@, encryptedBuffer)])
           kept == Renumbered(
                       HeapAfterRelease(
                           [bufs EXCEPT ![encryptedBuffer] = r.staged],
                           encryptedBuffer),
                       ReleaseChunkBuffer(p, encryptedBuffer),
                       chunk)
       IN  /\ IF r.err = "nil"
                THEN /\ chunk' = swapped.chunk
                     /\ pool' = swapped.pool
                     /\ bufs' = swapped.bufs
                     /\ life' = [life EXCEPT ![c] =
                                   IF @.phase = "plain"
                                     THEN [@ EXCEPT !.phase = "sealed",
                                                    !.ek = encryptionKey,
                                                    !.dk = derivationKey,
                                                    !.hash0 = IF CanHash(c)
                                                                THEN HashValue(c)
                                                                ELSE <<>>]
                                     ELSE Other]
                ELSE /\ chunk' = kept.chunk
                     /\ pool' = kept.pool
                     /\ bufs' = kept.bufs
                     /\ UNCHANGED life
           /\ last' = [Returned("Encrypt", c, r.err) EXCEPT
                         !.ek = encryptionKey, !.dk = derivationKey,
                         !.pre = bufs[old]]
    /\ StorageIdle

\* a Decrypt that leaves the hasher of the chunk as it was
DecryptedFields_KeepHasher(ch, decompressed) == [ch EXCEPT !.hash = <<>>]

\* chunk.hasher = chunk.config.NewKeyedHasher(chunk.config.HashKey);
\* chunk.hasher.Write(decompressed); chunk.hash = nil: what a successful
\* Decrypt assigns to the fields of the chunk besides its buffer
DecryptedFields(ch, decompressed) ==
    [ch EXCEPT !.hasher = decompressed, !.hash = <<>>]

\* Chunk.Decrypt(encryptionKey, derivationKey)
Decrypt(c, encryptionKey, derivationKey, fault) ==
    /\ chunk[c].buffer # NoBuf
    /\ LET old == chunk[c].buffer
           encryptedBuffer == AllocateChunkBuffer
           r == DecryptEnvelope(bufs[old], encryptionKey, derivationKey, fault)
           p == PoolAfterAllocate
           swapped == Renumbered(
                          HeapAfterRelease(
                              [bufs EXCEPT ![encryptedBuffer] =
                                   IF r.err = "nil" THEN r.out ELSE <<>>], old),
                          ReleaseChunkBuffer(p, old),
                          [chunk EXCEPT ![c] =
                             [(IF r.err = "nil" THEN DecryptedFields(@, r.out)
                               ELSE @)
                                EXCEPT !.buffer = encryptedBuffer]])
       IN  /\ chunk' = swapped.chunk
           /\ pool' = swapped.pool
           /\ bufs' = swapped.bufs
           /\ life' = [life EXCEPT ![c] =
                         IF @.phase = "sealed" THEN [@ EXCEPT !.phase = "opened"]
                         ELSE IF @.phase = "tampered"
                           THEN [@ EXCEPT !.phase = "openedT"]
                         ELSE IF @.phase = "received" /\ r.err = "nil"
                           THEN [@ EXCEPT !.phase = "restored"]
                         ELSE Other]
           /\ last' = [Returned("Decrypt", c, r.err) EXCEPT
                         !.ek = encryptionKey, !.dk = derivationKey,
                         !.pre = bufs[old], !.arg = r.arg, !.steps = r.steps]
    /\ StorageIdle

(***************************************************************************)
(* Bytes arriving from the storage.                                        *)
(***************************************************************************)
\* s with byte i replaced by b
SetByte(s, i, b) == [s EXCEPT ![i] = b]

\* a well-formed encrypted envelope, as some client uploaded it
GoodBlob == Seal(Compress(<<1>>), <<65>>, Fill(SaltLen, 17))

\* an envelope whose MAC is right but whose payload is no zstd frame
NoFrameBlob == Seal(<<1, 2, 3>>, <<65>>, Fill(SaltLen, 17))

\* the objects a download can deliver: well-formed envelopes and envelopes
\* that are cut short or differ in the magic, the version byte or the MAC
RemoteBlobs ==
    LET badMagic == SetByte(GoodBlob, 1, 68)
        badVer   == SetByte(GoodBlob, HeaderLen, 1)
        badMac   == SetByte(GoodBlob, HeaderLen + SaltLen + 1, 0)
    IN  { GoodBlob, NoFrameBlob, badMagic, badVer, badMac,
          SetByte(badMagic, HeaderLen, 1),
          SetByte(badVer, HeaderLen + SaltLen + 1, 0),
          Take(GoodBlob, HeaderLen + SaltLen + MacLen - 1),
          Take(badMagic, HeaderLen + SaltLen),
          Take(badVer, HeaderLen),
          Compress(<<1>>), <<9>> }

\* The effect on the chunk of a DownloadFile that returns nil:
\* chunk.buffer.Write(fileBytes).  A chunk that receives bytes right after
\* its Reset starts a restore; a successful Decrypt completes it.
Receive(c, fileBytes) ==
    /\ chunk[c].buffer # NoBuf
    /\ GetBytes(c) = <<>>
    /\ bufs' = [bufs EXCEPT ![chunk[c].buffer] = @ \o fileBytes]
    /\ life' = [life EXCEPT ![c] =
                  IF @.phase \in {"plain", "cipher"} /\ ~@.queried
                    THEN [NoLife EXCEPT !.phase = "received"]
                    ELSE Other]
    /\ last' = NoCall
    /\ UNCHANGED <<pool, chunk>>
    /\ StorageIdle

\* the amounts by which a corrupted byte differs from the original
TamperDeltas == {1, 128}

\* One byte of the envelope a chunk holds is changed between Encrypt and
\* Decrypt (the envelope is stored and comes back with position i altered).
Tamper(c, i, d) ==
    /\ life[c].phase = "sealed"
    /\ i \in 1..Len(GetBytes(c))
    /\ bufs' = [bufs EXCEPT ![chunk[c].buffer] =
                   SetByte(@, i, (@[i] + d) % 256)]
    /\ life' = [life EXCEPT ![c].phase = "tampered"]
    /\ last' = NoCall
    /\ UNCHANGED <<pool, chunk>>
    /\ StorageIdle

(***************************************************************************)
(* The pool under concurrent calls.  Threads t1 and t2 create, fill,       *)
(* encrypt and decrypt their chunks.  The only state they share is the     *)
(* channel chunkBufferPool, touched by one select in AllocateChunkBuffer   *)
(* and one in ReleaseChunkBuffer: Encrypt and Decrypt are two steps each,  *)
(* up to the select that allocates and from there to the select that       *)
(* releases.  Buffers keep their ids here, and their capacities are        *)
(* followed.                                                               *)
(***************************************************************************)
\* a receive from the channel with no default case
SelectReceive_NoDefault(p) == IF p # <<>> THEN "receive" ELSE "blocked"

\* select { case buffer = <-chunkBufferPool: default: }: the case taken
SelectReceive(p) == IF p # <<>> THEN "receive" ELSE "default"

\* select { case chunkBufferPool <- buffer: default: }: the case taken
SelectSend(p) == IF Len(p) < PoolCap THEN "send" ELSE "default"

\* the ids of the buffers some chunk, thread or pool slot refers to
Held == {b \in BufIds : InUse(b)}

\* The buffers in use when threads are inside Encrypt or Decrypt, in a
\* fixed order: those of the chunks, those the threads hold in
\* encryptedBuffer, those queued in the pool.
UsedBuffersAll(p, ch, th) ==
    LET held == <<ch["c1"].buffer, ch["c2"].buffer>>
        inCall(t) == IF th[t].pc \in {"Encrypt", "Decrypt"}
                       THEN <<th[t].encryptedBuffer>> ELSE <<>>
    IN  SelectSeq(held, LAMBDA b : b # NoBuf)
           \o inCall("t1") \o inCall("t2") \o p

\* The state after a step that leaves the heap h, the capacities k, the
\* channel p, the chunks ch, the threads th and the record l of the call,
\* with the buffers in use numbered 1, 2, ... in the order of
\* UsedBuffersAll (see Renumbered).  A buffer nothing refers to any more is
\* garbage: it loses its id, and the record of the call names it NoBuf.
Settle(h, k, p, ch, th, l) ==
    LET order == FirstsOnly(UsedBuffersAll(p, ch, th))
        used(b) == \E i \in 1..Len(order) : order[i] = b
        rank(b) == IF used(b) THEN CHOOSE i \in 1..Len(order) : order[i] = b
                   ELSE NoBuf
    IN  /\ bufs' = [n \in BufIds |->
                      IF n <= Len(order) THEN h[order[n]] ELSE <<>>]
        /\ caps' = [n \in BufIds |->
                      IF n <= Len(order) THEN k[order[n]] ELSE 0]
        /\ pool' = [i \in 1..Len(p) |-> rank(p[i])]
        /\ chunk' = [c \in Chunks |-> [ch[c] EXCEPT !.buffer = rank(@)]]
        /\ thr' = [t \in Threads |->
                     IF th[t].pc \in {"Encrypt", "Decrypt"}
                       THEN [th[t] EXCEPT !.encryptedBuffer = rank(@)]
                       ELSE th[t]]
        /\ last' = [l EXCEPT !.buffer = rank(@),
                             !.pool0 = [i \in 1..Len(@) |-> rank(@[i])],
                             !.held0 = {rank(x) : x \in @} \ {NoBuf}]

\* the heap after AllocateChunkBuffer() returned buffer b and Reset() was
\* called on it: new(bytes.Buffer) is empty and has no storage
HeapAfterAllocate(h, b) == [h EXCEPT ![b] = <<>>]

CapsAfterAllocate(k, b) == IF pool # <<>> THEN k ELSE [k EXCEPT ![b] = 0]

\* a step of a thread on its chunk leaves the storage alone
ThreadStep ==
    /\ ret' = NoRet
    /\ UNCHANGED <<remote, queue, tmp, fossil>>
    /\ SwitchKept

\* What a call did to the pool, as the claims read it: the channel and the
\* buffers in use before the select, the buffer the select returned or was
\* handed, and for CreateChunk the capacity the buffer came with.
PoolCall(op, t, b, err) ==
    [buffer |-> b, pool0 |-> pool, held0 |-> Held, t |-> t, cap0 |-> 0,
     bufferNeeded |-> TRUE]
    @@ Returned(op, ChunkOf(t), err)

\* if buffer.Cap() < config.MaximumChunkSize {
\*     buffer.Grow(config.MaximumChunkSize - buffer.Cap()) }
\* on a buffer that was Reset(): the capacity afterwards
CreatedCap(cap) ==
    IF cap < MaximumChunkSize
      THEN GrownCap(cap, 0, MaximumChunkSize - cap)
      ELSE cap

\* CreateChunk(config, bufferNeeded), called by thread t, which drops the
\* chunk it had.  The buffer of the dropped chunk is garbage.
CreateChunk(t, config, bufferNeeded) ==
    /\ thr[t].pc = "idle"
    /\ bufferNeeded => SelectReceive(pool) # "blocked"
    /\ LET c == ChunkOf(t)
           buffer == IF bufferNeeded THEN AllocateChunkBuffer ELSE NoBuf
           cap == IF bufferNeeded /\ pool # <<>> THEN caps[buffer] ELSE 0
       IN  Settle(IF bufferNeeded THEN HeapAfterAllocate(bufs, buffer)
                  ELSE bufs,
                  IF bufferNeeded
                    THEN [caps EXCEPT ![buffer] = CreatedCap(cap)]
                    ELSE caps,
                  IF bufferNeeded THEN PoolAfterAllocate ELSE pool,
                  [chunk EXCEPT ![c] =
                     [buffer |-> buffer, size |-> 0, hasher |-> NoHasher,
                      hash |-> <<>>, id |-> <<>>, config |-> config]],
                  thr,
                  [PoolCall("CreateChunk", t, buffer, "nil") EXCEPT
                     !.cap0 = cap, !.bufferNeeded = bufferNeeded])
    /\ life' = [life EXCEPT ![ChunkOf(t)] = NoLife]
    /\ ThreadStep

\* Chunk.Write(p), called by thread t on its chunk
Thread_Write(t, p) ==
    /\ thr[t].pc = "idle"
    /\ WriteBytes(ChunkOf(t), p)
    /\ caps' = [caps EXCEPT ![chunk[ChunkOf(t)].buffer] =
                   GrownCap(@, Len(GetBytes(ChunkOf(t))), Len(p))]
    /\ UNCHANGED thr
    /\ ThreadStep

\* the lengths of the writes by which Encrypt puts the bytes staged into
\* encryptedBuffer: the header, the salt, the MAC and the ciphertext, or
\* the compressed bytes at once
EncryptWrites(staged, encryptionKey) ==
    IF Len(encryptionKey) = 0
      THEN IF staged = <<>> THEN <<>> ELSE <<Len(staged)>>
    ELSE IF Len(staged) <= HeaderLen THEN <<Len(staged)>>
    ELSE IF Len(staged) <= HeaderLen + SaltLen
      THEN <<HeaderLen, Len(staged) - HeaderLen>>
    ELSE <<HeaderLen, SaltLen, MacLen,
           Len(staged) - HeaderLen - SaltLen - MacLen>>

\* Encrypt, called by thread t on its chunk, up to
\* encryptedBuffer := AllocateChunkBuffer(); encryptedBuffer.Reset()
Encrypt_Allocate(t) ==
    /\ thr[t].pc = "idle"
    /\ chunk[ChunkOf(t)].buffer # NoBuf
    /\ Len(GetBytes(ChunkOf(t))) <= MaxLen
    /\ SelectReceive(pool) # "blocked"
    /\ LET encryptedBuffer == AllocateChunkBuffer
       IN  Settle(HeapAfterAllocate(bufs, encryptedBuffer),
                  CapsAfterAllocate(caps, encryptedBuffer),
                  PoolAfterAllocate,
                  chunk,
                  [thr EXCEPT ![t] =
                     [pc |-> "Encrypt", encryptedBuffer |-> encryptedBuffer]],
                  PoolCall("AllocateChunkBuffer", t, encryptedBuffer, "nil"))
    /\ UNCHANGED life
    /\ ThreadStep

\* the rest of Encrypt, down to the deferred ReleaseChunkBuffer
Encrypt_Release(t, encryptionKey, derivationKey, salt, fault) ==
    /\ thr[t].pc = "Encrypt"
    /\ SelectSend(pool) # "blocked"
    /\ LET c == ChunkOf(t)
           old == chunk[c].buffer
           encryptedBuffer == thr[t].encryptedBuffer
           r == EncryptEnvelope(bufs[old], encryptionKey, derivationKey,
                                salt, fault)
           released == IF r.err = "nil" THEN old ELSE encryptedBuffer
       IN  /\ Settle(HeapAfterRelease(
                         [bufs EXCEPT ![encryptedBuffer] = r.staged], released),
                     [caps EXCEPT ![encryptedBuffer] =
                        CapAfterWrites(@, EncryptWrites(r.staged,
                                                        encryptionKey))],
                     ReleaseChunkBuffer(pool, released),
                     IF r.err = "nil"
                       THEN [chunk EXCEPT
                               ![c] = EncryptSwap(@, encryptedBuffer)]
                       ELSE chunk,
                     [thr EXCEPT ![t] = Idle],
                     PoolCall("ReleaseChunkBuffer", t, released, r.err))
           /\ life' = IF r.err # "nil" THEN life
                      ELSE [life EXCEPT ![c] =
                              IF @.phase = "plain"
                                THEN [@ EXCEPT !.phase = "sealed",
                                               !.ek = encryptionKey,
                                               !.dk = derivationKey,
                                               !.hash0 = IF CanHash(c)
                                                           THEN HashValue(c)
                                                           ELSE <<>>]
                                ELSE Other]
    /\ ThreadStep

\* Decrypt, called by thread t on its chunk, up to the swap of the buffers
Decrypt_Allocate(t) ==
    /\ thr[t].pc = "idle"
    /\ chunk[ChunkOf(t)].buffer # NoBuf
    /\ SelectReceive(pool) # "blocked"
    /\ LET c == ChunkOf(t)
           encryptedBuffer == AllocateChunkBuffer
       IN  Settle(HeapAfterAllocate(bufs, encryptedBuffer),
                  CapsAfterAllocate(caps, encryptedBuffer),
                  PoolAfterAllocate,
                  [chunk EXCEPT ![c].buffer = encryptedBuffer],
                  [thr EXCEPT ![t] =
                     [pc |-> "Decrypt", encryptedBuffer |-> chunk[c].buffer]],
                  PoolCall("AllocateChunkBuffer", t, encryptedBuffer, "nil"))
    /\ UNCHANGED life
    /\ ThreadStep

\* the rest of Decrypt, down to the deferred ReleaseChunkBuffer
Decrypt_Release(t, encryptionKey, derivationKey, fault) ==
    /\ thr[t].pc = "Decrypt"
    /\ SelectSend(pool) # "blocked"
    /\ LET c == ChunkOf(t)
           encryptedBuffer == thr[t].encryptedBuffer
           r == DecryptEnvelope(bufs[encryptedBuffer], encryptionKey,
                                derivationKey, fault)
       IN  /\ Settle(HeapAfterRelease(
                         [bufs EXCEPT ![chunk[c].buffer] =
                              IF r.err = "nil" THEN r.out ELSE <<>>],
                         encryptedBuffer),
                     IF r.err # "nil" THEN caps
                     ELSE [caps EXCEPT ![chunk[c].buffer] =
                             CapAfterWrites(@, <<Len(r.out)>>)],
                     ReleaseChunkBuffer(pool, encryptedBuffer),
                     IF r.err # "nil" THEN chunk
                     ELSE [chunk EXCEPT ![c] = DecryptedFields(@, r.out)],
                     [thr EXCEPT ![t] = Idle],
                     PoolCall("ReleaseChunkBuffer", t, encryptedBuffer, r.err))
           /\ life' = [life EXCEPT ![c] =
                         IF @.phase = "sealed" THEN [@ EXCEPT !.phase = "opened"]
                         ELSE Other]
    /\ ThreadStep

(***************************************************************************)
(* The Sia storage: the daemon behind the API, and the SIAStorage calls.   *)
(***************************************************************************)
\* storage.storageDir
storageDir == "d"

\* storage.storageDir + "/" + filePath
SiaPathOf(filePath) == storageDir \o "/" \o filePath

\* the chunk file whose life as a fossil is followed, and its fossil
AbcPath == "chunks/abc"
AbcFossilPath == "chunks/abc.fsl"

\* the envelopes uploaded as chunks/abc
Envelopes == {<<5>>, <<5, 6>>}

\* a step of the storage leaves the chunks' fields alone
ChunksIdle ==
    /\ last' = NoCall
    /\ UNCHANGED <<bufs, pool, chunk, life>>
    /\ CapsNotFollowed
    /\ SwitchKept

\* the daemon knows a file at that Sia path
HasFile(rf, siaPath) == \E i \in 1..Len(rf) : rf[i].SiaPath = siaPath

\* for _, fi := range rf.Files { if fi.SiaPath == path ...: the first entry
\* of the listing at that path, 0 when there is none
IndexOf(rf, siaPath) ==
    IF HasFile(rf, siaPath)
      THEN CHOOSE i \in 1..Len(rf) :
              rf[i].SiaPath = siaPath
              /\ \A j \in 1..(i - 1) : rf[j].SiaPath # siaPath
      ELSE 0

\* what the API shows of a download: api.DownloadInfo
DownloadInfo(e) ==
    [SiaPath |-> e.SiaPath, Filesize |-> e.Filesize,
     Received |-> e.Received, Destination |-> e.Destination]

\* the reply to GET /renter/downloads: the downloads the daemon lists
Downloads == [ i \in 1..Len(SelectSeq(queue, LAMBDA e : e.Listed)) |->
                 DownloadInfo(SelectSeq(queue, LAMBDA e : e.Listed)[i]) ]

\* the smallest name free in the temp dir and not written by a download
FreshTmp ==
    LET free == {f \in TmpNames :
                   tmp[f] = NoFile
                   /\ \A j \in 1..Len(queue) : queue[j].Destination # f}
    IN  IF free = {} THEN 0
        ELSE CHOOSE f \in free : \A g \in free : f <= g

\* ------------------------------------------------------------------------
\* The daemon.
\* ------------------------------------------------------------------------
\* an upload reaches the redundancy that makes the file available
MakeAvailable(i) ==
    /\ i \in 1..Len(remote)
    /\ ~remote[i].Available
    /\ remote' = [remote EXCEPT ![i].Available = TRUE]
    /\ ret' = NoRet
    /\ UNCHANGED <<queue, tmp, thr, fossil>>
    /\ ChunksIdle

\* the thread that waits for the file of that name
Awaited(f) ==
    \E t \in Threads : thr[t].pc = "DownloadFile" /\ thr[t].tmpFile = f

\* the temp dir after the calls of thread t returned with an error, leaving
\* file f behind
LeftBehind(files, f) == [files EXCEPT ![f] = Leftover]

\* a download the daemon accepted shows up in its queue, then receives its
\* bytes one at a time into its destination
Transfer(j) ==
    /\ j \in 1..Len(queue)
    /\ ~queue[j].Listed \/ queue[j].Received < queue[j].Filesize
    /\ IF ~queue[j].Listed
         THEN /\ queue' = [queue EXCEPT ![j].Listed = TRUE]
              /\ tmp' = tmp
         ELSE /\ queue' = [queue EXCEPT ![j].Received = @ + 1]
              /\ tmp' = [tmp EXCEPT ![queue[j].Destination] =
                           IF Awaited(queue[j].Destination)
                             THEN Take(queue[j].data, queue[j].Received + 1)
                             ELSE Leftover]
    /\ ret' = NoRet
    /\ UNCHANGED <<remote, thr, fossil>>
    /\ ChunksIdle

\* ------------------------------------------------------------------------
\* ListFiles
\* ------------------------------------------------------------------------
\* strings.Split(s, "/")[0]
FirstSegment(s) ==
    LET cuts == {i \in 1..Len(s) : SubSeq(s, i, i) = "/"}
    IN  IF cuts = {} THEN s
        ELSE SubSeq(s, 1, (CHOOSE i \in cuts : \A k \in cuts : i <= k) - 1)

\* dir with the "/" that ListFiles adds to it
WithSlash(dir) ==
    IF Len(dir) > 0 /\ SubSeq(dir, Len(dir), Len(dir)) # "/"
      THEN dir \o "/" ELSE dir

\* what ListFiles makes of the listing rf
ListFilesResult(rf, dir0) ==
    LET dir == WithSlash(dir0)
        dirPath == storageDir \o "/" \o dir
        dirLength == Len(dirPath)
        under == SelectSeq(rf, LAMBDA fi :
                     Len(fi.SiaPath) > dirLength
                     /\ SubSeq(fi.SiaPath, 1, dirLength) = dirPath)
        rest(fi) == SubSeq(fi.SiaPath, dirLength + 1, Len(fi.SiaPath))
    IN  IF dir = "snapshots/"
          THEN [files |-> [i \in 1..Len(under) |->
                              FirstSegment(rest(under[i])) \o "/"],
                sizes |-> <<>>, err |-> "nil"]
        ELSE IF dir = "chunks/"
          THEN [files |-> [i \in 1..Len(under) |-> rest(under[i])],
                sizes |-> [i \in 1..Len(under) |-> under[i].Filesize],
                err |-> "nil"]
        ELSE [files |-> [i \in 1..Len(under) |-> rest(under[i])],
              sizes |-> <<>>, err |-> "nil"]

\* SIAStorage.ListFiles(threadIndex, dir); ok: the request succeeds
ListFiles(t, dir, ok) ==
    /\ thr[t].pc = "idle"
    /\ ret' = [op |-> "ListFiles", t |-> t, dir |-> dir]
              @@ (IF ok THEN ListFilesResult(remote, dir)
                  ELSE [files |-> <<>>, sizes |-> <<>>, err |-> "request"])
    /\ UNCHANGED <<remote, queue, tmp, thr, fossil>>
    /\ ChunksIdle

\* ------------------------------------------------------------------------
\* GetFileInfo, FindChunk
\* ------------------------------------------------------------------------
\* what GetFileInfo makes of the listing rf
GetFileInfoResult(rf, filePath) ==
    LET i == IndexOf(rf, SiaPathOf(filePath))
    IN  IF i # 0
          THEN [exist |-> TRUE, isDir |-> FALSE, size |-> rf[i].Filesize,
                err |-> "nil"]
          ELSE [exist |-> FALSE, isDir |-> FALSE, size |-> 0, err |-> "nil"]

\* what GetFileInfo returns; ok: the request succeeds
GetFileInfoReturn(filePath, ok) ==
    IF ok THEN GetFileInfoResult(remote, filePath)
    ELSE [exist |-> FALSE, isDir |-> FALSE, size |-> 0, err |-> "request"]

\* SIAStorage.GetFileInfo(threadIndex, filePath)
GetFileInfo(t, filePath, ok) ==
    /\ thr[t].pc = "idle"
    /\ ret' = [op |-> "GetFileInfo", t |-> t, filePath |-> filePath]
              @@ GetFileInfoReturn(filePath, ok)
    /\ UNCHANGED <<remote, queue, tmp, thr, fossil>>
    /\ ChunksIdle

\* a FindChunk that looks for fossils under the name of the chunk
FindChunkPath_NoSuffix(chunkID, isFossil) == "chunks/" \o chunkID

\* the path FindChunk looks at
FindChunkPath(chunkID, isFossil) ==
    "chunks/" \o chunkID \o (IF isFossil THEN ".fsl" ELSE "")

\* what FindChunk returns, given what its GetFileInfo returned
FindChunkReturn(chunkID, isFossil, info) ==
    IF info.err # "nil"
      THEN [filePath |-> "", exist |-> FALSE, size |-> 0, err |-> info.err]
      ELSE [filePath |-> FindChunkPath(chunkID, isFossil),
            exist |-> info.exist, size |-> info.size, err |-> info.err]

\* SIAStorage.FindChunk(threadIndex, chunkID, isFossil)
FindChunk(t, chunkID, isFossil, ok) ==
    /\ thr[t].pc = "idle"
    /\ ret' = [op |-> "FindChunk", t |-> t, chunkID |-> chunkID,
               isFossil |-> isFossil]
              @@ FindChunkReturn(chunkID, isFossil,
                     GetFileInfoReturn(FindChunkPath(chunkID, isFossil), ok))
    /\ UNCHANGED <<remote, queue, tmp, thr, fossil>>
    /\ ChunksIdle

\* ------------------------------------------------------------------------
\* DeleteFile, MoveFile
\* ------------------------------------------------------------------------
\* SIAStorage.DeleteFile(threadIndex, filePath): the error of the Post is
\* returned as it is.  The daemon refuses to delete a file it does not know;
\* ok: the request reaches the daemon.
DeleteFile(t, filePath, ok) ==
    /\ thr[t].pc = "idle"
    /\ LET fPath == SiaPathOf(filePath)
           done == ok /\ HasFile(remote, fPath)
       IN  /\ remote' = IF done
                          THEN SelectSeq(remote, LAMBDA fi : fi.SiaPath # fPath)
                          ELSE remote
           /\ fossil' = IF done /\ filePath \in {AbcPath, AbcFossilPath}
                          THEN NoFossil ELSE fossil
           /\ ret' = [op |-> "DeleteFile", t |-> t, filePath |-> filePath,
                      reached |-> ok, found |-> HasFile(remote, fPath),
                      err |-> IF done THEN "nil" ELSE "request"]
    /\ UNCHANGED <<queue, tmp, thr>>
    /\ ChunksIdle

\* SIAStorage.MoveFile(threadIndex, from, to); the daemon refuses to rename a
\* file it does not know, or onto a file it knows
MoveFile(t, from, to, ok) ==
    /\ thr[t].pc = "idle"
    /\ LET fromPath == SiaPathOf(from)
           toPath == SiaPathOf(to)
           done == ok /\ HasFile(remote, fromPath) /\ ~HasFile(remote, toPath)
       IN  /\ remote' = IF done
                          THEN [i \in 1..Len(remote) |->
                                  IF remote[i].SiaPath = fromPath
                                    THEN [remote[i] EXCEPT !.SiaPath = toPath]
                                    ELSE remote[i]]
                          ELSE remote
           /\ fossil' = IF ~done \/ {from, to} \cap {AbcPath, AbcFossilPath} = {}
                          THEN fossil
                        ELSE IF from = AbcPath /\ to = AbcFossilPath
                                /\ fossil.phase = "uploaded"
                          THEN [fossil EXCEPT !.phase = "moved"]
                        ELSE NoFossil
           /\ ret' = [op |-> "MoveFile", t |-> t, from |-> from, to |-> to,
                      err |-> IF done THEN "nil" ELSE "request"]
    /\ UNCHANGED <<queue, tmp, thr>>
    /\ ChunksIdle

\* ------------------------------------------------------------------------
\* UploadFile
\* ------------------------------------------------------------------------
\* a poll that is content with any file at the path
UploadPolled_AnyFile(rf, uploadPath) ==
    IF IndexOf(rf, uploadPath) = 0 THEN "again" ELSE "return"

\* one round of the loop of UploadFile over the listing rf: return nil,
\* sleep a second and list again, or list again at once
UploadPolled(rf, uploadPath) ==
    LET i == IndexOf(rf, uploadPath)
    IN  IF i = 0 THEN "again"
        ELSE IF ~rf[i].Available THEN "sleep"
        ELSE "return"

\* UploadFile up to its upload request: the content is staged in a temp
\* file and the request is sent; the daemon refuses a path it knows
UploadFile_Post(t, filePath, content, ok) ==
    /\ thr[t].pc = "idle"
    /\ FreshTmp # 0
    /\ LET uploadPath == SiaPathOf(filePath)
           tmpFile == FreshTmp
           done == ok /\ ~HasFile(remote, uploadPath)
       IN  /\ tmp' = [tmp EXCEPT ![tmpFile] = IF done THEN content ELSE Leftover]
           /\ remote' = IF done
                          THEN Append(remote,
                                      [SiaPath |-> uploadPath,
                                       Filesize |-> Len(content),
                                       Available |-> FALSE,
                                       data |-> content])
                          ELSE remote
           /\ thr' = IF done
                       THEN [thr EXCEPT ![t] =
                               [Idle EXCEPT !.pc = "UploadFile",
                                            !.filePath = filePath,
                                            !.tmpFile = tmpFile]]
                       ELSE thr
           /\ ret' = IF done THEN NoRet
                     ELSE [op |-> "UploadFile", t |-> t, filePath |-> filePath,
                           err |-> "request", failed |-> TRUE]
           /\ fossil' = IF ~done \/ filePath \notin {AbcPath, AbcFossilPath}
                          THEN fossil
                        ELSE IF filePath = AbcPath
                                /\ ~HasFile(remote, SiaPathOf(AbcFossilPath))
                          THEN [phase |-> "uploading", E |-> content]
                        ELSE NoFossil
    /\ UNCHANGED queue
    /\ ChunksIdle

\* one round of the loop of UploadFile; ok: the listing request succeeds
UploadFile_Poll(t, ok) ==
    /\ thr[t].pc = "UploadFile"
    /\ LET filePath == thr[t].filePath
           polled == UploadPolled(remote, SiaPathOf(filePath))
       IN  IF ~ok \/ polled = "return"
             THEN /\ thr' = [thr EXCEPT ![t] = Idle]
                  /\ tmp' = IF ok THEN [tmp EXCEPT ![thr[t].tmpFile] = NoFile]
                            ELSE LeftBehind(tmp, thr[t].tmpFile)
                  /\ ret' = [op |-> "UploadFile", t |-> t,
                             filePath |-> filePath,
                             err |-> IF ok THEN "nil" ELSE "request",
                             failed |-> ~ok]
                  /\ fossil' = IF filePath # AbcPath THEN fossil
                               ELSE IF ok /\ fossil.phase = "uploading"
                                 THEN [fossil EXCEPT !.phase = "uploaded"]
                               ELSE NoFossil
                  /\ UNCHANGED <<remote, queue>>
                  /\ ChunksIdle
             ELSE UNCHANGED vars

\* ------------------------------------------------------------------------
\* DownloadFile
\* ------------------------------------------------------------------------
\* var d api.DownloadInfo
ZeroDownload ==
    [SiaPath |-> "", Filesize |-> 0, Received |-> 0, Destination |-> 0]

\* for _, d = range queue.Downloads { if d.SiaPath == downloadPath { break } }
\* the value of d after the loop
Examined(downloads, downloadPath) ==
    IF downloads = <<>> THEN ZeroDownload
    ELSE IF HasFile(downloads, downloadPath)
      THEN downloads[IndexOf(downloads, downloadPath)]
    ELSE downloads[Len(downloads)]

\* DownloadFile up to its download request; fault: what fails.  The daemon
\* refuses a file it does not know or that is not available.
DownloadFile_Get(t, filePath, fault) ==
    /\ thr[t].pc = "idle"
    /\ chunk[ChunkOf(t)].buffer # NoBuf
    /\ Len(GetBytes(ChunkOf(t))) < MaxLen
    /\ Len(queue) < MaxDownloads
    /\ FreshTmp # 0
    /\ LET downloadPath == SiaPathOf(filePath)
           tmpFile == FreshTmp
           i == IndexOf(remote, downloadPath)
           done == fault = "none" /\ i # 0 /\ remote[i].Available
       IN  /\ tmp' = IF fault = "rand" THEN tmp
                     ELSE IF done THEN [tmp EXCEPT ![tmpFile] = <<>>]
                     ELSE LeftBehind(tmp, tmpFile)
           /\ queue' = IF done
                         THEN Append(queue,
                                     [SiaPath |-> downloadPath,
                                      Filesize |-> remote[i].Filesize,
                                      Received |-> 0,
                                      Destination |-> tmpFile,
                                      Listed |-> FALSE,
                                      data |-> remote[i].data])
                         ELSE queue
           /\ thr' = IF done
                       THEN [thr EXCEPT ![t] =
                               [pc |-> "DownloadFile", filePath |-> filePath,
                                tmpFile |-> tmpFile, want |-> remote[i].data]]
                       ELSE thr
           /\ ret' = IF done THEN NoRet
                     ELSE [op |-> "DownloadFile", t |-> t,
                           filePath |-> filePath,
                           err |-> IF fault = "rand" THEN "rand" ELSE "request",
                           d |-> ZeroDownload, want |-> <<>>]
    /\ UNCHANGED <<remote, fossil>>
    /\ ChunksIdle

\* one round of the loop of DownloadFile; ok: the queue request succeeds
DownloadFile_Poll(t, ok) ==
    /\ thr[t].pc = "DownloadFile"
    /\ LET c == ChunkOf(t)
           filePath == thr[t].filePath
           tmpFile == thr[t].tmpFile
           d == Examined(Downloads, SiaPathOf(filePath))
           returned(err) == [op |-> "DownloadFile", t |-> t,
                             filePath |-> filePath, err |-> err,
                             d |-> IF ok THEN d ELSE ZeroDownload,
                             want |-> thr[t].want]
       IN  IF ~ok \/ (d.Filesize # 0 /\ d.Received = d.Filesize
                                      /\ tmp[tmpFile] = NoFile)
             THEN /\ thr' = [thr EXCEPT ![t] = Idle]
                  /\ ret' = returned(IF ok THEN "read" ELSE "request")
                  /\ tmp' = IF tmp[tmpFile] = NoFile THEN tmp
                            ELSE LeftBehind(tmp, tmpFile)
                  /\ UNCHANGED <<remote, queue, fossil>>
                  /\ ChunksIdle
           ELSE IF d.Filesize # 0 /\ d.Received = d.Filesize
             THEN /\ bufs' = [bufs EXCEPT ![chunk[c].buffer] = @ \o tmp[tmpFile]]
                  /\ life' = [life EXCEPT ![c] = Other]
                  /\ last' = NoCall
                  /\ tmp' = [tmp EXCEPT ![tmpFile] = NoFile]
                  /\ thr' = [thr EXCEPT ![t] = Idle]
                  /\ ret' = returned("nil")
                  /\ UNCHANGED <<pool, chunk, remote, queue, fossil>>
                  /\ CapsNotFollowed
                  /\ SwitchKept
           ELSE UNCHANGED vars

(***************************************************************************)
(* Specification of the remote files: a thread uploads, renames, deletes   *)
(* and looks up chunk files while the daemon completes the uploads at its  *)
(* own pace.                                                               *)
(***************************************************************************)
InitSia == InitChunks({[c \in Chunks |-> Config1]})

NextFiles ==
    \/ \E i \in 1..(MaxDownloads + 2) : MakeAvailable(i)
    \/ \E ok \in BOOLEAN :
         \/ \E dir \in {"chunks", "snapshots/", ""} : ListFiles("t2", dir, ok)
         \/ \E p \in {AbcPath, AbcFossilPath} : GetFileInfo("t2", p, ok)
         \/ \E isFossil \in BOOLEAN : FindChunk("t2", "abc", isFossil, ok)
         \/ \E p \in {AbcPath, AbcFossilPath, "chunks/xyz"} :
                DeleteFile("t1", p, ok)
         \/ MoveFile("t1", AbcPath, AbcFossilPath, ok)
         \/ MoveFile("t1", AbcFossilPath, AbcPath, ok)
         \/ \E E \in Envelopes : UploadFile_Post("t1", AbcPath, E, ok)
         \/ UploadFile_Poll("t1", ok)

SpecFiles == InitSia /\ [][NextFiles]_vars

(***************************************************************************)
(* Specification of the listings: ListFiles is called on each directory,   *)
(* whatever files the daemon lists when the storage is created.            *)
(***************************************************************************)
\* the Sia paths the daemon may list, in the order it lists them
ListedPaths ==
    << "d/snapshots/host/1", "d/snapshots/host/2", "d/snapshots/lone",
       "d/chunks/xyz", "d/chunks/ab/cd", "dx/chunks/q" >>

\* the entry of the listing for the k-th path
ListedFile(k) ==
    [SiaPath |-> ListedPaths[k], Filesize |-> 1 + (k % 2),
     Available |-> TRUE, data |-> Fill(1 + (k % 2), 7)]

\* the listing that holds the paths numbered in S
ListingOf(S) ==
    LET idx == SelectSeq([k \in 1..Len(ListedPaths) |-> k],
                         LAMBDA k : k \in S)
    IN  [i \in 1..Len(idx) |-> ListedFile(idx[i])]

\* the directories ListFiles is called on
ListedDirs == {"snapshots", "snapshots/", "snapshots/host", "chunks",
               "chunks/", ""}

InitListing ==
    \E S \in SUBSET (1..Len(ListedPaths)) :
       InitChunksOn({[c \in Chunks |-> Config1]}, ListingOf(S))

NextListing ==
    \E dir \in ListedDirs, ok \in BOOLEAN : ListFiles("t1", dir, ok)

SpecListing == InitListing /\ [][NextListing]_vars

(***************************************************************************)
(* Specification of the downloads: thread t1 uploads a chunk file and      *)
(* downloads it into chunk c1 while thread t2 downloads another file into  *)
(* chunk c2, and the daemon lists and feeds the downloads at its own pace. *)
(***************************************************************************)
NextDownloads ==
    \/ \E i \in 1..(MaxDownloads + 2) : MakeAvailable(i)
    \/ \E j \in 1..MaxDownloads : Transfer(j)
    \/ \E E \in Envelopes : UploadFile_Post("t1", AbcPath, E, TRUE)
    \/ UploadFile_Poll("t1", TRUE)
    \/ \E t \in Threads, p \in {AbcPath, "chunks/xyz"},
          fault \in {"none", "rand", "request"} :
            DownloadFile_Get(t, p, fault)
    \/ \E t \in Threads, ok \in BOOLEAN : DownloadFile_Poll(t, ok)
    \/ Reset("c1", FALSE) /\ thr["t1"].pc = "idle"
    \/ Write("c1", <<7>>) /\ thr["t1"].pc = "idle"

SpecDownloads == InitSia /\ [][NextDownloads]_vars

(***************************************************************************)
(* Specification of the downloads that run to their end: no request fails, *)
(* the daemon lists every download it accepted and feeds it until all its  *)
(* bytes are received, and a thread inside DownloadFile keeps going round  *)
(* its loop.  One of the remote files is empty.                            *)
(***************************************************************************)
\* an empty remote file
EmptyPath == "chunks/empty"

StoredEmpty ==
    [SiaPath |-> SiaPathOf(EmptyPath), Filesize |-> 0, Available |-> TRUE,
     data |-> <<>>]

InitPolling ==
    InitChunksOn({[c \in Chunks |-> Config1]},
                 Append(StoredFiles, StoredEmpty))

NextPolling ==
    \/ \E j \in 1..MaxDownloads : Transfer(j)
    \/ \E t \in Threads, p \in {"chunks/xyz", EmptyPath} :
            DownloadFile_Get(t, p, "none")
    \/ \E t \in Threads : DownloadFile_Poll(t, TRUE)
    \/ Reset("c1", FALSE) /\ thr["t1"].pc = "idle"

\* the daemon goes on with each download, and each thread with its loop
FairPolling ==
    /\ \A j \in 1..MaxDownloads : WF_vars(Transfer(j))
    /\ \A t \in Threads : WF_vars(DownloadFile_Poll(t, TRUE))

SpecPolling == InitPolling /\ [][NextPolling]_vars /\ FairPolling

(***************************************************************************)
(* Specification of the codec: one chunk is filled, encrypted, decrypted   *)
(* with right and wrong keys, and, when it was made or reset to hold       *)
(* encrypted content, fed envelopes from the storage.                      *)
(***************************************************************************)
InitCodec ==
    InitChunks({[c \in Chunks |-> Config1]})

NextCodec ==
    \E c \in {"c1"} :
        \/ \E h \in BOOLEAN : Reset(c, h)
        \/ \E p \in PlainBytes : Write(c, p)
        \/ GetHash(c)
        \/ \E ek \in EncryptionKeys, dk \in DerivationKeys, salt \in Salts :
                Encrypt(c, ek, dk, salt, "none")
        \/ \E ek \in EncryptionKeys, fault \in {"rand", "zstd", "kdf"} :
                Encrypt(c, ek, <<>>, Fill(SaltLen, 17), fault)
        \/ \E ek \in EncryptionKeys, dk \in DerivationKeys :
                Decrypt(c, ek, dk, "none")
        \/ Decrypt(c, <<65>>, <<>>, "kdf")
        \/ \E blob \in RemoteBlobs :
                chunk[c].hasher = NoHasher /\ Receive(c, blob)

SpecCodec == InitCodec /\ [][NextCodec]_vars

(***************************************************************************)
(* Specification of the legacy switch: the program starts in any           *)
(* environment, and a chunk is filled, encrypted and decrypted with and    *)
(* without a derivation key.                                               *)
(***************************************************************************)
InitSwitch ==
    \E env \in Environments :
       InitProgram({[c \in Chunks |-> Config1]}, StoredFiles, env)

NextSwitch ==
    \E c \in {"c1"} :
        \/ Reset(c, TRUE)
        \/ \E p \in PlainBytes : Write(c, p)
        \/ \E dk \in DerivationKeys :
                Encrypt(c, <<65>>, dk, Fill(SaltLen, 17), "none")
        \/ \E dk \in DerivationKeys : Decrypt(c, <<65>>, dk, "none")

SpecSwitch == InitSwitch /\ [][NextSwitch]_vars

(***************************************************************************)
(* Specification of tampering: an encrypted envelope comes back from the   *)
(* storage with one byte changed, at any position, and is decrypted.       *)
(***************************************************************************)
\* the longest envelope Encrypt makes of a plaintext of MaxLen bytes
MaxEnvelope == HeaderLen + SaltLen + MacLen + Len(Compress(Fill(MaxLen, 0)))

NextTamper ==
    \E c \in {"c1"} :
        \/ Reset(c, TRUE)
        \/ \E p \in PlainBytes : Write(c, p)
        \/ \E dk \in DerivationKeys :
                Encrypt(c, <<65>>, dk, Fill(SaltLen, 17), "none")
        \/ \E i \in 1..MaxEnvelope, d \in TamperDeltas : Tamper(c, i, d)
        \/ \E dk \in DerivationKeys : Decrypt(c, <<65>>, dk, "none")

SpecTamper == InitCodec /\ [][NextTamper]_vars

(***************************************************************************)
(* Specification of identity: two chunks are built independently.          *)
(***************************************************************************)
InitIdentity ==
    InitChunks({[c \in Chunks |-> IF c = "c1" THEN Config1 ELSE cfg] :
                   cfg \in Configs})

\* chunk c1 goes through any history, encryption included; chunk c2 is
\* only ever filled and asked for its id
NextIdentity ==
    \/ \E c \in Chunks :
          \/ Reset(c, TRUE)
          \/ \E p \in PlainBytes : Write(c, p)
          \/ GetID(c)
    \/ \E ek \in {<<65>>, <<66>>} :
          Encrypt("c1", ek, <<>>, Fill(SaltLen, 17), "none")

SpecIdentity == InitIdentity /\ [][NextIdentity]_vars

(***************************************************************************)
(* Specification of the cached hash and id: one chunk is reset, filled,    *)
(* asked for its hash and id, encrypted, decrypted and fed envelopes from  *)
(* the storage, in any order.                                              *)
(***************************************************************************)
\* the objects a download delivers here: a well-formed envelope, and bytes
\* that are no envelope
CachedBlobs == {GoodBlob, <<9>>}

\* the byte strings handed to Write here
CachedWrites == {<<1>>, <<0, 1>>}

NextCache ==
    \E c \in {"c1"} :
        \/ \E h \in BOOLEAN : Reset(c, h)
        \/ \E p \in CachedWrites : Write(c, p)
        \/ GetHash(c)
        \/ GetID(c)
        \/ \E ek \in EncryptionKeys :
                Encrypt(c, ek, <<>>, Fill(SaltLen, 17), "none")
        \/ \E ek \in EncryptionKeys : Decrypt(c, ek, <<>>, "none")
        \/ \E blob \in CachedBlobs : Receive(c, blob)
        \/ VerifyID(c)

SpecCache == InitCodec /\ [][NextCache]_vars

(***************************************************************************)
(* Specification of the frame of Encrypt: a chunk is filled, asked for its *)
(* hash and id at any point, and encrypted, each library call of Encrypt   *)
(* failing in turn.                                                        *)
(***************************************************************************)
\* what fails inside Encrypt
EncryptFaults == {"none", "rand", "zstd", "kdf"}

NextFrame ==
    \E c \in {"c1"} :
        \/ \E h \in BOOLEAN : Reset(c, h)
        \/ \E p \in CachedWrites : Write(c, p)
        \/ GetHash(c)
        \/ GetID(c)
        \/ \E ek \in EncryptionKeys, dk \in DerivationKeys,
              fault \in EncryptFaults :
                Encrypt(c, ek, dk, Fill(SaltLen, 17), fault)

SpecFrame == InitCodec /\ [][NextFrame]_vars

(***************************************************************************)
(* Specification of the pool: two threads create, fill, encrypt and        *)
(* decrypt their chunks concurrently.                                      *)
(***************************************************************************)
\* thread t1 does all of it; thread t2 creates its chunk and encrypts it
NextPool ==
    \/ \E t \in Threads :
          \/ \E bufferNeeded \in BOOLEAN :
                CreateChunk(t, Config1, bufferNeeded)
          \/ Encrypt_Allocate(t)
          \/ \E fault \in {"none", "zstd"} :
                Encrypt_Release(t, <<>>, <<>>, Fill(SaltLen, 17), fault)
    \/ Thread_Write("t1", <<1>>)
    \/ Decrypt_Allocate("t1")
    \/ Decrypt_Release("t1", <<>>, <<>>, "none")

SpecPool == InitCodec /\ [][NextPool]_vars

(***************************************************************************)
(* Claims about the codec.                                                 *)
(***************************************************************************)
\* the errors that come from a failing library call, not from the data
LibraryErrors == {"rand", "kdf"}

\* Decrypt has just returned on chunk c, which held the envelope a
\* successful Encrypt made of the bytes written since Reset(true), and the
\* keys of the two calls are the same
RoundTripped(c) ==
    /\ last.op = "Decrypt" /\ last.c = c
    /\ life[c].phase = "opened"
    /\ last.ek = life[c].ek /\ last.dk = life[c].dk
    /\ last.err \notin LibraryErrors

RoundTripRestores(c) ==
    /\ last.err = "nil"
    /\ GetBytes(c) = life[c].P
    /\ HashValue(c) = life[c].hash0

C9_ValidationOrder ==
    (last.op = "Decrypt" /\ Len(last.ek) > 0) =>
        LET src == last.pre
            key == DeriveKey(last.ek, last.dk)
            longEnough == Len(src) >= 10 + 32 + 64
            magicOK == Take(src, 9) = <<100, 117, 112, 108, 105, 99, 97, 99, 121>>
            versionOK == src[10] = 0
            macOK == SubSeq(src, 43, 106)
                        = SkeinMac(key, SubSeq(src, 11, 42), Drop(src, 106))
        IN  /\ ~longEnough => last.err = "short"
            /\ longEnough /\ ~magicOK => last.err = "magic"
            /\ longEnough /\ magicOK /\ ~versionOK
                  => last.err = "version" /\ last.arg = src[10]
            /\ longEnough /\ magicOK /\ versionOK
                  => last.err \in {"kdf", "mac", "zstd", "nil"}
            /\ last.err = "mac" => longEnough /\ magicOK /\ versionOK /\ ~macOK
            /\ (\E i \in 1..Len(last.steps) : last.steps[i] = "decompress")
                  => longEnough /\ magicOK /\ versionOK /\ macOK
            /\ last.err \in {"zstd", "nil"}
                  => last.steps[Len(last.steps)] = "decompress"

\* an envelope with both a wrong magic and a wrong version byte was refused
\* for its magic
C9_Witness ==
    /\ last.op = "Decrypt" /\ Len(last.ek) > 0
    /\ Len(last.pre) >= 10 + 32 + 64
    /\ last.pre[1] # 100 /\ last.pre[10] # 0
    /\ last.err = "magic"

\* chunk c holds a complete envelope of the bytes src under the keys of
\* the last call
HoldsEnvelopeOf(c, src) ==
    LET d == DecryptEnvelope(GetBytes(c), last.ek, last.dk, "none")
    IN  d.err = "nil" /\ d.out = src

\* chunk c holds the complete plaintext of the envelope env: sealing it
\* again with the salt of env gives env
HoldsPlaintextOf(c, env) ==
    IF Len(last.ek) = 0 THEN Compress(GetBytes(c)) = env
    ELSE /\ Len(env) >= HeaderLen + SaltLen + MacLen
         /\ Seal(Compress(GetBytes(c)), DeriveKey(last.ek, last.dk),
                 SubSeq(env, HeaderLen + 1, HeaderLen + SaltLen)) = env

EncryptLeavesWhole(c) ==
    (last.op = "Encrypt" /\ last.c = c) =>
        IF last.err = "nil" THEN HoldsEnvelopeOf(c, last.pre)
        ELSE GetBytes(c) = last.pre

\* C10 as stated: after every return of Encrypt or Decrypt, on success and
\* on every error path, the buffer holds either the complete plaintext or a
\* complete envelope, and is never left empty, partial or with other content.
C10_WholeOnEveryPath ==
    \A c \in Chunks :
        /\ EncryptLeavesWhole(c)
        /\ (last.op = "Decrypt" /\ last.c = c) =>
              IF last.err = "nil" THEN HoldsPlaintextOf(c, last.pre)
              ELSE GetBytes(c) = last.pre

\* C10, amended: after every return of Encrypt, and after every successful
\* return of Decrypt, the buffer holds the complete plaintext or a complete
\* envelope; after a failed Decrypt the buffer is empty (the envelope went
\* back to the pool with the buffer that held it).
C10_WholeOrEmpty ==
    \A c \in Chunks :
        /\ EncryptLeavesWhole(c)
        /\ (last.op = "Decrypt" /\ last.c = c) =>
              IF last.err = "nil" THEN HoldsPlaintextOf(c, last.pre)
              ELSE GetBytes(c) = <<>>

\* a Decrypt refused a well-formed envelope for its MAC (wrong derivation
\* key) and left the chunk empty
C10_Witness ==
    /\ last.op = "Decrypt" /\ last.c = "c1" /\ last.err = "mac"
    /\ life["c1"].phase = "opened"
    /\ last.pre # <<>>
    /\ GetBytes("c1") = <<>>

\* C8: for any envelope produced by Encrypt with a non-empty key, changing
\* any single byte at any position of the envelope (magic, version byte,
\* salt, MAC or ciphertext) makes Decrypt with the same keys return an error.
C8_TamperDetected ==
    \A c \in Chunks :
        ( /\ last.op = "Decrypt" /\ last.c = c
          /\ life[c].phase = "openedT"
          /\ Len(life[c].ek) > 0
          /\ last.ek = life[c].ek /\ last.dk = life[c].dk )
        => last.err # "nil"

\* the last byte of the ciphertext of the longest envelope was changed and
\* Decrypt, handed the right keys, refused the envelope for its MAC
C8_Witness ==
    /\ last.op = "Decrypt" /\ last.c = "c1"
    /\ life["c1"].phase = "openedT"
    /\ last.ek = life["c1"].ek /\ last.dk = life["c1"].dk
    /\ Len(last.pre) = MaxEnvelope
    /\ last.pre # Seal(Compress(life["c1"].P), DeriveKey(last.ek, last.dk),
                       SubSeq(last.pre, HeaderLen + 1, HeaderLen + SaltLen))
    /\ Take(last.pre, MaxEnvelope - 1)
          = Take(Seal(Compress(life["c1"].P), DeriveKey(last.ek, last.dk),
                      SubSeq(last.pre, HeaderLen + 1, HeaderLen + SaltLen)),
                 MaxEnvelope - 1)
    /\ last.err = "mac"

(***************************************************************************)
(* Claims about the identity of chunks.                                    *)
(***************************************************************************)
\* two chunks with the same HashKey and IDKey that absorbed the same bytes
\* since their last Reset(true)
SameBuild(a, b) ==
    /\ chunk[a].config.HashKey = chunk[b].config.HashKey
    /\ chunk[a].config.IDKey = chunk[b].config.IDKey
    /\ life[a].phase \in {"plain", "sealed"}
    /\ life[b].phase \in {"plain", "sealed"}
    /\ life[a].P = life[b].P

\* C2 as stated: two chunks that share HashKey and IDKey and were written
\* the same bytes P since their last Reset(true) return the same GetID(),
\* however P was split across Write calls, whatever the chunk held before
\* the Reset and whatever key was later passed to Encrypt.
C2_SameIDAnyHistory ==
    \A a, b \in Chunks : SameBuild(a, b) => IDValue(a) = IDValue(b)

\* C2, amended: the same, for chunks whose hash and id were not asked for
\* before their last Write (GetID caches the id of the bytes written so
\* far, and Write does not drop it).
C2_SameID ==
    \A a, b \in Chunks :
        SameBuild(a, b) /\ ~life[a].dirty /\ ~life[b].dirty
            => IDValue(a) = IDValue(b)

\* the same two bytes were written at once to one chunk, which had an id
\* before its Reset and was then encrypted, and in two calls to the other;
\* the id of each is cached
C2_Witness ==
    /\ SameBuild("c1", "c2")
    /\ ~life["c1"].dirty /\ ~life["c2"].dirty
    /\ Len(life["c1"].P) = 2
    /\ life["c1"].writes = 1 /\ life["c2"].writes = 2
    /\ life["c1"].phase = "sealed" /\ life["c1"].ek = <<66>>
    /\ life["c2"].phase = "plain"
    /\ chunk["c1"].id # <<>> /\ chunk["c2"].id # <<>>

(***************************************************************************)
(* Claims about the Sia storage.                                           *)
(***************************************************************************)
\* the daemon marks the file at that Sia path, or a file below it, Available
AvailableAt(siaPath) ==
    \E i \in 1..Len(remote) :
        /\ remote[i].Available
        /\ Len(remote[i].SiaPath) >= Len(siaPath)
        /\ SubSeq(remote[i].SiaPath, 1, Len(siaPath)) = siaPath

\* C3: GetFileInfo, FindChunk and ListFiles never report a remote file that
\* is not marked Available: a file whose upload is in progress or was
\* abandoned is never reported as existing.
C3_PartialInvisible ==
    /\ ( /\ ret.op \in {"GetFileInfo", "FindChunk"}
         /\ ret.err = "nil"
         /\ ret.exist )
       => AvailableAt(SiaPathOf(ret.filePath))
    /\ (ret.op = "ListFiles" /\ ret.err = "nil")
       => \A i \in 1..Len(ret.files) :
             AvailableAt(SiaPathOf(WithSlash(ret.dir) \o ret.files[i]))

\* C4: DownloadFile returns nil only after it saw, in the download queue, an
\* entry whose SiaPath is its own download path and whose Received equals
\* its Filesize; never on the strength of an entry for another path.
C4_OwnEntryObserved ==
    (ret.op = "DownloadFile" /\ ret.err = "nil")
       => /\ ret.d.SiaPath = SiaPathOf(ret.filePath)
          /\ ret.d.Received = ret.d.Filesize

\* C5: when DownloadFile(path, chunk) returns nil, the buffer of the chunk
\* holds exactly the bytes stored remotely at path, whether or not the
\* buffer was empty before the call.
C5_DownloadRestores ==
    (ret.op = "DownloadFile" /\ ret.err = "nil")
       => GetBytes(ChunkOf(ret.t)) = ret.want

\* what FindChunk returns over the files the daemon knows now
FindChunkOn(rf, chunkID, isFossil) ==
    FindChunkReturn(chunkID, isFossil,
                    GetFileInfoResult(rf, FindChunkPath(chunkID, isFossil)))

\* C6: from a remote with no chunk abc, once UploadFile("chunks/abc", E) has
\* returned nil, FindChunk("abc", false) reports the chunk with size |E| and
\* FindChunk("abc", true) reports no fossil, in every state until
\* MoveFile("chunks/abc", "chunks/abc.fsl") returns nil; from then on
\* FindChunk("abc", true) reports the fossil with size |E| and
\* FindChunk("abc", false) reports no chunk.
C6_FossilVisibility ==
    /\ fossil.phase = "uploaded"
         => /\ FindChunkOn(remote, "abc", FALSE)
                 = [filePath |-> AbcPath, exist |-> TRUE,
                    size |-> Len(fossil.E), err |-> "nil"]
            /\ ~FindChunkOn(remote, "abc", TRUE).exist
    /\ fossil.phase = "moved"
         => /\ FindChunkOn(remote, "abc", TRUE)
                 = [filePath |-> AbcFossilPath, exist |-> TRUE,
                    size |-> Len(fossil.E), err |-> "nil"]
            /\ ~FindChunkOn(remote, "abc", FALSE).exist
    /\ ( /\ ret.op = "FindChunk" /\ ret.err = "nil"
         /\ fossil.phase \in {"uploaded", "moved"} )
         => /\ ret.exist = (ret.isFossil <=> fossil.phase = "moved")
            /\ ret.exist => ret.size = Len(fossil.E)

\* a two-byte envelope was uploaded as chunks/abc and renamed to its fossil,
\* and a FindChunk for the fossil has just reported it with its size
C6_Witness ==
    /\ fossil.phase = "moved" /\ Len(fossil.E) = 2
    /\ ret.op = "FindChunk" /\ ret.err = "nil" /\ ret.isFossil
    /\ ret.exist /\ ret.size = 2 /\ ret.filePath = AbcFossilPath

\* C7: UploadFile returns nil only when a listing has shown the file at
\* storageDir/path as Available, so that the file is visible to GetFileInfo
\* at the moment of the return; it returns an error whenever the upload
\* request or a listing request fails.
C7_UploadReturns ==
    ret.op = "UploadFile"
       => /\ ret.err = "nil"
               => /\ HasFile(remote, SiaPathOf(ret.filePath))
                  /\ remote[IndexOf(remote, SiaPathOf(ret.filePath))].Available
                  /\ GetFileInfoResult(remote, ret.filePath).exist
          /\ ret.failed => ret.err # "nil"

\* an UploadFile has just returned nil
C7_Witness ==
    /\ ret.op = "UploadFile" /\ ret.err = "nil"
    /\ thr[ret.t].pc = "idle"
    /\ tmp = [f \in TmpNames |-> NoFile]

C12_HashOfAllWritten ==
    \A c \in Chunks :
        life[c].phase = "plain"
            => HashValue(c) = KeyedHash(chunk[c].config.HashKey, life[c].P)

\* C12, amended: after Reset(true) followed by Writes, GetHash() returns
\* the keyed hash of the bytes written between that Reset and the first
\* call of GetHash or GetID after it: of all the bytes written when no
\* Write followed such a call, of a proper prefix of them otherwise.  The
\* result does not depend on the state of the chunk before the Reset.
C12_HashOfWrittenBeforeQuery ==
    \A c \in Chunks :
        life[c].phase = "plain"
            => IF ~life[c].dirty
                 THEN HashValue(c)
                         = KeyedHash(chunk[c].config.HashKey, life[c].P)
                 ELSE /\ chunk[c].hash # <<>>
                      /\ \E n \in 0..(Len(life[c].P) - 1) :
                            chunk[c].hash
                               = KeyedHash(chunk[c].config.HashKey,
                                           Take(life[c].P, n))

\* two Writes filled the chunk after a Reset(true), then GetID and GetHash
\* were called: the hash of the two bytes is cached
C12_Witness ==
    /\ life["c1"].phase = "plain" /\ ~life["c1"].dirty
    /\ life["c1"].writes = 2 /\ Len(life["c1"].P) = MaxLen
    /\ chunk["c1"].id # <<>>
    /\ chunk["c1"].hash = KeyedHash(<<11>>, life["c1"].P)

\* C13: in every reachable state in which the cached id of the chunk is
\* non-empty, the id equals the identifier derived from config.IDKey and the
\* hash that GetHash() returns in that state, after any sequence of Reset,
\* Write, GetHash, GetID, Encrypt and Decrypt, including after a Decrypt
\* that re-installs the hasher.  (Judged on the chunks that went through
\* these calls only, since their last Reset(true).)
C13_IdMatchesHash ==
    \A c \in Chunks :
        (life[c].phase \in {"plain", "sealed", "opened"} /\ chunk[c].id # <<>>)
            => /\ CanHash(c)
               /\ chunk[c].id = ChunkID(chunk[c].config.IDKey, HashValue(c))

\* C14 as stated: VerifyID recomputes the hash and the id from the bytes in
\* the buffer and reports a fatal integrity error exactly when that id
\* differs from the id cached on the chunk; it reports nothing when they
\* are equal and does not modify the buffer.
C14_ReportsIffCachedDiffers ==
    \A c \in Chunks :
        (last.op = "VerifyID" /\ last.c = c) =>
            LET recomputed == ChunkID(chunk[c].config.IDKey,
                                      KeyedHash(chunk[c].config.HashKey,
                                                last.pre))
            IN  /\ last.err = "CHUNK_ID" <=> recomputed # last.id0
                /\ recomputed = last.id0 => last.err = "nil"
                /\ GetBytes(c) = last.pre

\* C14, amended: VerifyID recomputes the hash and the id from the bytes in
\* the buffer and compares the id with what GetID() returns: the cached id
\* if there is one, and otherwise the id derived from the cached hash or,
\* without one, from the hasher, which the call then caches.  It reports
\* the error exactly when the two differ, and never modifies the buffer.
\* On a chunk with no cached id, no cached hash and a nil hasher the call
\* panics.
C14_ReportsIffGetIDDiffers ==
    \A c \in Chunks :
        (last.op = "VerifyID" /\ last.c = c) =>
            LET recomputed == ChunkID(chunk[c].config.IDKey,
                                      KeyedHash(chunk[c].config.HashKey,
                                                last.pre))
            IN  /\ GetBytes(c) = last.pre
                /\ IF last.id0 = <<>> /\ last.h0 = <<>>
                     THEN last.err = "panic" /\ chunk[c].id = <<>>
                     ELSE /\ chunk[c].id
                               = IF last.id0 # <<>> THEN last.id0
                                 ELSE ChunkID(chunk[c].config.IDKey, last.h0)
                          /\ last.err = IF recomputed # chunk[c].id
                                          THEN "CHUNK_ID" ELSE "nil"

\* VerifyID has just reported that the id cached on the chunk is not
\* the id of the bytes in its buffer
C14_Witness ==
    /\ last.op = "VerifyID" /\ last.c = "c1" /\ last.err = "CHUNK_ID"
    /\ last.id0 # <<>> /\ chunk["c1"].id = last.id0
    /\ last.pre # <<>> /\ GetBytes("c1") = last.pre

(***************************************************************************)
(* Claims about the buffer pool.                                           *)
(***************************************************************************)
\* the call that has just returned took a buffer from AllocateChunkBuffer
JustAllocated ==
    \/ last.op = "AllocateChunkBuffer"
    \/ last.op = "CreateChunk" /\ last.bufferNeeded

\* C15: under any interleaving of concurrent AllocateChunkBuffer and
\* ReleaseChunkBuffer calls, neither call ever blocks, the pool never holds
\* more buffers than its fixed capacity, an allocate on an empty pool
\* returns a fresh buffer, and a release on a full pool discards the buffer
\* and leaves the contents of the pool unchanged.
C15_PoolNeverBlocks ==
    /\ Len(pool) <= PoolCap
    /\ SelectReceive(pool) # "blocked"
    /\ SelectSend(pool) # "blocked"
    /\ JustAllocated
          => IF last.pool0 = <<>>
               THEN /\ last.buffer \notin last.held0
                    /\ bufs[last.buffer] = <<>>
                    /\ last.op = "AllocateChunkBuffer"
                          => caps[last.buffer] = 0
                    /\ pool = <<>>
               ELSE /\ last.buffer = Head(last.pool0)
                    /\ pool = Tail(last.pool0)
    /\ last.op = "ReleaseChunkBuffer"
          => IF Len(last.pool0) = PoolCap
               THEN pool = last.pool0 /\ last.buffer = NoBuf
               ELSE pool = Append(last.pool0, last.buffer)

\* a thread has released a buffer to a pool the other thread had filled
\* since this thread's allocate: the buffer was discarded
C15_Witness ==
    /\ last.op = "ReleaseChunkBuffer" /\ last.t = "t2"
    /\ Len(last.pool0) = PoolCap /\ pool = last.pool0
    /\ last.buffer = NoBuf

\* C16: for every buffer the pool can hand out, whatever its capacity,
\* CreateChunk(config, true) returns a chunk whose buffer is empty and has
\* capacity at least config.MaximumChunkSize, and CreateChunk(config, false)
\* returns a chunk with no buffer.
C16_CreatedBufferHasMaximumCapacity ==
    last.op = "CreateChunk"
       => IF last.bufferNeeded
            THEN /\ chunk[last.c].buffer # NoBuf
                 /\ GetBytes(last.c) = <<>>
                 /\ caps[chunk[last.c].buffer] >= MaximumChunkSize
            ELSE chunk[last.c].buffer = NoBuf

(***************************************************************************)
(* Claims about the Sia storage calls.                                     *)
(***************************************************************************)
\* C17: DeleteFile is idempotent: DeleteFile on a path at which no remote
\* file exists returns nil and leaves the remote files as they are, so that
\* a second DeleteFile on the same path returns nil as the first did.
C17_DeleteMissingReturnsNil ==
    ( /\ ret.op = "DeleteFile"
      /\ ret.reached
      /\ ~ret.found )
       => /\ ret.err = "nil"
          /\ ~HasFile(remote, SiaPathOf(ret.filePath))

\* the names of what lies directly under storageDir/dir: a file by its
\* name, a subdirectory by its name and "/"
DirectChildren(rf, dir0) ==
    LET dirPath == storageDir \o "/" \o WithSlash(dir0)
        dirLength == Len(dirPath)
        rests == {SubSeq(rf[k].SiaPath, dirLength + 1, Len(rf[k].SiaPath)) :
                    k \in {k \in 1..Len(rf) :
                             /\ Len(rf[k].SiaPath) > dirLength
                             /\ SubSeq(rf[k].SiaPath, 1, dirLength) = dirPath}}
    IN  {IF FirstSegment(r) = r THEN r ELSE FirstSegment(r) \o "/" :
           r \in rests}

\* C18: for any set of remote files, ListFiles(dir) returns exactly the
\* direct children of storageDir/dir and nothing from deeper levels, each
\* file directly under dir once by its name and each direct subdirectory
\* once with a trailing "/"; when dir is chunks/ the sizes list is as long
\* as the files list and sizes[i] is the size of files[i].
C18_ListsDirectChildren ==
    (ret.op = "ListFiles" /\ ret.err = "nil")
       => /\ {ret.files[i] : i \in 1..Len(ret.files)}
                = DirectChildren(remote, ret.dir)
          /\ \A i, j \in 1..Len(ret.files) :
                i # j => ret.files[i] # ret.files[j]
          /\ WithSlash(ret.dir) = "chunks/"
                => /\ Len(ret.sizes) = Len(ret.files)
                   /\ \A i \in 1..Len(ret.files) :
                         \E k \in 1..Len(remote) :
                            /\ remote[k].SiaPath
                                  = SiaPathOf("chunks/" \o ret.files[i])
                            /\ remote[k].Filesize = ret.sizes[i]

(***************************************************************************)
(* Claims about the legacy switch.                                         *)
(***************************************************************************)
\* C19: the legacy switch changes decryption: when DecryptWithHMACSHA256 is
\* set, Decrypt derives its effective key by another derivation than when
\* it is unset, so the outcome of Decrypt on a given envelope and keys
\* depends on the switch.  An envelope that Encrypt sealed under a derived
\* key is restored by Decrypt with the same keys when the switch is unset;
\* with the switch set the outcome is another one.
C19_SwitchChangesDecrypt ==
    \A c \in Chunks :
        ( /\ last.op = "Decrypt" /\ last.c = c
          /\ life[c].phase = "opened"
          /\ Len(life[c].ek) > 0 /\ Len(life[c].dk) > 0
          /\ last.ek = life[c].ek /\ last.dk = life[c].dk
          /\ DecryptWithHMACSHA256 )
        => ~(last.err = "nil" /\ GetBytes(c) = life[c].P)

(***************************************************************************)
(* Claims about the termination of DownloadFile.                           *)
(***************************************************************************)
\* C20: DownloadFile terminates: if no request fails and the download queue
\* of the remote eventually reports the download of the requested path with
\* Received equal to Filesize, then DownloadFile eventually returns,
\* whatever the size of the remote file, 0 included.
C20_DownloadReturns ==
    \A t \in Threads :
        (thr[t].pc = "DownloadFile") ~> (thr[t].pc = "idle")

\* the same for the downloads of files that are not empty
NonEmptyDownloadReturns ==
    \A t \in Threads :
        (thr[t].pc = "DownloadFile" /\ thr[t].filePath # EmptyPath)
           ~> (thr[t].pc = "idle")

(***************************************************************************)
(* Claims about the frame of Encrypt.                                      *)
(***************************************************************************)
\* the step is the return of an Encrypt on chunk c
EncryptReturns(c) == last'.op = "Encrypt" /\ last'.c = c

\* C21: Encrypt does not disturb the identity of the chunk: on success and
\* on failure it leaves hash, id, hasher and config unchanged, so that
\* GetHash() and GetID() called after Encrypt return what they would have
\* returned just before it; on failure the buffer still holds the
\* unchanged plaintext.
C21_EncryptKeepsIdentity ==
    [][\A c \in Chunks :
          EncryptReturns(c)
             => /\ chunk'[c].hash = chunk[c].hash
                /\ chunk'[c].id = chunk[c].id
                /\ chunk'[c].hasher = chunk[c].hasher
                /\ chunk'[c].config = chunk[c].config
                /\ CanHash(c)' = CanHash(c)
                /\ CanHash(c) => /\ HashValue(c)' = HashValue(c)
                                 /\ IDValue(c)' = IDValue(c)
                /\ last'.err # "nil" => GetBytes(c)' = GetBytes(c)]_vars

\* an Encrypt that failed inside threefishCTR returned on a chunk that
\* holds its plaintext and its cached hash and id
C21_Witness ==
    /\ last.op = "Encrypt" /\ last.c = "c1" /\ last.err = "kdf"
    /\ chunk["c1"].hash # <<>> /\ chunk["c1"].id # <<>>
    /\ Len(GetBytes("c1")) = MaxLen /\ GetBytes("c1") = last.pre

(***************************************************************************)
(* Claims about the ownership of the buffers.                              *)
(***************************************************************************)
\* the number of holders of buffer b: the chunks whose buffer it is, the
\* threads that hold it as encryptedBuffer inside Encrypt or Decrypt, and
\* the slots of the pool it is queued in
Holders(b) ==
    Cardinality({c \in Chunks : chunk[c].buffer = b})
    + Cardinality({t \in Threads : /\ thr[t].pc \in {"Encrypt", "Decrypt"}
                                   /\ thr[t].encryptedBuffer = b})
    + Cardinality({i \in 1..Len(pool) : pool[i] = b})

\* C22: when several threads run Encrypt and Decrypt on distinct chunks
\* concurrently, every call takes exactly one buffer (from the pool or
\* fresh) and gives exactly one buffer back on every return path, each
\* chunk holds exactly one buffer before and after, and in no reachable
\* state is a buffer both in the pool and the buffer of a chunk, or the
\* buffer of two chunks.
C22_BufferOwnership ==
    /\ \A b \in BufIds : Holders(b) <= 1
    /\ \A t \in Threads :
          thr[t].pc \in {"Encrypt", "Decrypt"}
             => /\ thr[t].encryptedBuffer # NoBuf
                /\ chunk[ChunkOf(t)].buffer # NoBuf
    /\ last.op = "AllocateChunkBuffer"
          => /\ thr[last.t].pc \in {"Encrypt", "Decrypt"}
             /\ last.buffer # NoBuf
             /\ last.buffer \in {thr[last.t].encryptedBuffer,
                                 chunk[last.c].buffer}
             /\ Held = last.held0 \cup {last.buffer}
             /\ Len(pool) = IF last.pool0 = <<>> THEN 0
                            ELSE Len(last.pool0) - 1
    /\ last.op = "ReleaseChunkBuffer"
          => /\ thr[last.t].pc = "idle"
             /\ chunk[last.c].buffer # NoBuf
             /\ Held = last.held0
             /\ Cardinality(Held) + (IF last.buffer = NoBuf THEN 1 ELSE 0)
                   = Cardinality({c \in Chunks : chunk[c].buffer # NoBuf})
                     + Len(last.pool0) + 1
                     + Cardinality({t \in Threads : thr[t].pc # "idle"})
             /\ last.buffer # NoBuf => pool = Append(last.pool0, last.buffer)

\* an Encrypt returned an error and gave its buffer back to the pool while
\* the other thread was inside Encrypt
C22_Witness ==
    /\ last.op = "ReleaseChunkBuffer" /\ last.t = "t1"
    /\ last.err # "nil"
    /\ thr["t2"].pc = "Encrypt"
    /\ pool # <<>> /\ last.buffer = pool[Len(pool)]

(***************************************************************************)
(* Claims about the restore sequence.                                      *)
(***************************************************************************)
\* C23: in the restore sequence Reset -> DownloadFile -> successful Decrypt
\* -> VerifyID, with no GetID call between the Reset and the VerifyID,
\* VerifyID never reports a mismatch, whatever bytes were downloaded: the
\* id it compares against is derived from the same decrypted plaintext.
C23_RestoreNeverReports ==
    \A c \in Chunks :
        (last.op = "VerifyID" /\ last.c = c /\ last.phase0 = "restored")
           => /\ last.err = "nil"
              /\ last.id0 = <<>>
              /\ chunk[c].id
                    = ChunkID(chunk[c].config.IDKey,
                              KeyedHash(chunk[c].config.HashKey, last.pre))

\* VerifyID returned on a chunk that was reset to hold encrypted content,
\* received an envelope and decrypted it to a plaintext that is not empty
C23_Witness ==
    /\ last.op = "VerifyID" /\ last.c = "c1" /\ last.phase0 = "restored"
    /\ last.err = "nil"
    /\ last.pre # <<>> /\ GetBytes("c1") = last.pre
    /\ chunk["c1"].hasher = last.pre

====
